---- MODULE Spec2Model ----
(***************************************************************************)
(* IntelliNote answer-generation pipeline (services/geminiService):        *)
(* callApiWithRetry, processSingleQuestion and generateAnswers, as run by  *)
(* the single-threaded JavaScript event loop.  Every action is one         *)
(* event-loop turn: the settling of one backend call (or of one backoff    *)
(* timer) followed by the synchronous code that runs up to the next await. *)
(* The document normalizer (utils/fileParser: parseNoteFiles, parsePdf,     *)
(* parseDocx, parseTextFile) is modelled beside it.                        *)
(*                                                                         *)
(* Spec           generateAnswers with its pool of workers                 *)
(* SpecFair       the same, on an event loop that keeps running            *)
(* SpecRetry      callApiWithRetry on its own                              *)
(* SpecParse      processSingleQuestion, one question, from the response   *)
(*                of the probe on                                          *)
(* SpecNormalize  parseNoteFiles over a batch of files                     *)
(* SpecExtract    extractQuestionsFromFile over one response of the model  *)
(* SpecApp        handleGenerateClick (App) driving generateAnswers        *)
(***************************************************************************)
EXTENDS Integers, Sequences, FiniteSets, TLC

VARIABLES
    questions,      \* the caller's Question[] (generateAnswers parameter)
    notesData,      \* the caller's ParsedNotes (generateAnswers parameter)
    inputArray,     \* the caller's array: its elements, as input positions
    phase,          \* state of the promise returned by generateAnswers
    questionQueue,  \* questionQueue: references (input positions) still queued
    resultsMap,     \* resultsMap: question text -> Result
    completedCount, \* completedCount
    pc,             \* per worker: where the worker's async function stands
    cur,            \* per worker: the question (input position) it holds
    call,           \* per worker: state of the callApiWithRetry it awaits
    local,          \* per worker: locals of processSingleQuestion
    inflight,       \* backend calls issued and not yet settled
    output,         \* the array generateAnswers resolved with
    progressLog,    \* the (completed, total) pairs handed to onProgress
    produced,       \* per input position: what processSingleQuestion returned
    failStage,      \* per input position: the stage whose wrapped call threw
    failCause,      \* per input position: the error that stage threw
    dequeueLog,     \* the input positions shifted off the queue, in order
    stageLog,       \* per input position: the stages entered, with their calls
    resultCount,    \* per input position: how many Results were stored for it
    progressSnap,   \* per call of onProgress: what was the case at that moment
    wrapped,        \* a callApiWithRetry run on its own
    apiLog,         \* the outcomes of the attempts of that run's apiCall
    delayLog,       \* the delays of the timers that run has waited for
    probeReply,     \* webSearchCheckResponse: the response of the probe
    synthConfig,    \* the config of the synthesis call, once it is issued
    fullText,       \* fullText: the text of a synthesis response, as lines
    parsePc,        \* where the code after the synthesis call stands
    parseOut,       \* what parseAiResponse returned for fullText
    imageOut,       \* imageUrl, as the Result carries it
    imageCalls,     \* the prompts of the image-generation calls issued
    imageReply,     \* what the image-generation call settled with
    files,          \* the File[] handed to parseNoteFiles
    normPc,         \* where parseNoteFiles stands
    fileIdx,        \* how many files its loop has gone through
    combinedText,   \* combinedText, as the segments appended to it
    allImages,      \* allImages
    pdf,            \* the locals of the parsePdf that is running
    normResult,     \* what parseNoteFiles settled with
    parsedDocs,     \* per file gone through: what its parser returned
    extractPc,      \* where extractQuestionsFromFile stands
    extractReply,   \* the response its wrapped call returned
    extractOut,     \* what extractQuestionsFromFile settled with
    selected,       \* App: whether notesFiles and questionsFile are chosen
    appPc,          \* App: where handleGenerateClick stands
    isLoading,      \* App state isLoading
    errorState,     \* App state error
    results,        \* App state results
    runs,           \* how many times handleGenerateClick has been started
    errorLog,       \* the messages handed to setError since the last start
    failedAt        \* the await of the current run that rejected, if any

pipeVars == <<questions, notesData, inputArray, phase, questionQueue, resultsMap,
              completedCount, pc, cur, call, local, inflight, output,
              progressLog, produced, failStage, failCause, dequeueLog,
              stageLog, resultCount, progressSnap>>
retryVars == <<wrapped, apiLog, delayLog>>
probeVars == <<probeReply, synthConfig>>
parseVars == <<probeVars, fullText, parsePc, parseOut, imageOut, imageCalls,
               imageReply>>
normVars == <<files, normPc, fileIdx, combinedText, allImages, pdf, normResult,
              parsedDocs>>
extractVars == <<extractPc, extractReply, extractOut>>
appVars == <<selected, appPc, isLoading, errorState, results, runs, errorLog,
             failedAt>>
vars == <<pipeVars, retryVars, parseVars, normVars, extractVars, appVars>>

(* What the actions of one part leave alone *)
besidePipe == <<retryVars, parseVars, normVars, extractVars, appVars>>
besideRetry == <<pipeVars, parseVars, normVars, extractVars, appVars>>
besideParse == <<pipeVars, retryVars, normVars, extractVars, appVars>>
besideNorm == <<pipeVars, retryVars, parseVars, extractVars, appVars>>
besideExtract == <<pipeVars, parseVars, normVars, appVars>>
besideApp == <<retryVars, parseVars, normVars, extractVars>>

----------------------------------------------------------------------------
(* Bounds of the model *)

MaxQuestions == 3
MaxRetriesBound == 3
MaxLines == 3
MaxFiles == 2
MaxPages == 2
MaxItems == 2
MaxRuns == 2
MaxAppQuestions == 2

(* Program constants *)

CONCURRENCY_LIMIT == 2
DefaultMaxRetries == 3
DefaultInitialDelay == 1000
JitterRange == 1000
ScanThreshold == 100

----------------------------------------------------------------------------
(* JavaScript values *)

NULL == "null"
NoCause == [none |-> TRUE]
NoError == [none |-> TRUE]
NoValue == [none |-> TRUE]

(* Error messages are sequences of fragments; String.prototype.includes     *)
(* looks for a needle inside the fragments.                                 *)
FragStatusExhausted == "\"status\":\"RESOURCE_EXHAUSTED\""
FragExhausted == "RESOURCE_EXHAUSTED"
Frag429 == "429"
FragRateLimit == "rate limit"

FragmentHas(frag, needle) ==
    \/ frag = needle
    \/ frag = FragStatusExhausted /\ needle = FragExhausted
    \/ frag = "API rate limit exceeded after multiple retries." /\ needle = FragRateLimit

Includes(message, needle) ==
    \E i \in 1..Len(message) : FragmentHas(message[i], needle)

MkError(name, message) == [name |-> name, message |-> message, cause |-> NoCause]

(* Errors the backend client rejects with *)
Err429 == MkError("ApiError", <<"got status: ", Frag429, " Too Many Requests">>)
ErrExhausted == MkError("ApiError", <<"{\"error\":{", FragStatusExhausted, "}}">>)
ErrQuotaText == MkError("ApiError", <<"quota: ", FragExhausted>>)
ErrNetwork == MkError("TypeError", <<"Failed to fetch">>)
ErrNoMessage == MkError("Error", <<>>)

RateLimitErrors == {Err429, ErrExhausted}
OtherErrors == {ErrNetwork, ErrNoMessage, ErrQuotaText}
BackendErrors == RateLimitErrors \cup OtherErrors

(* A TypeError raised by reading a property of undefined *)
ErrTypeError == MkError("TypeError", <<"Cannot read properties of undefined">>)

----------------------------------------------------------------------------
(* callApiWithRetry *)

(* A classifier that takes any mention of RESOURCE_EXHAUSTED for the signal *)
IsRateLimitErrorLoose(error) ==
    /\ Len(error.message) > 0
    /\ \/ Includes(error.message, FragExhausted)
       \/ Includes(error.message, Frag429)

(* `error.message && (includes('"status":"RESOURCE_EXHAUSTED"') ||          *)
(*  includes('429'))`: an empty message is falsy.                           *)
IsRateLimitError(error) ==
    /\ Len(error.message) > 0
    /\ \/ Includes(error.message, FragStatusExhausted)
       \/ Includes(error.message, Frag429)

RateLimitExceededError ==
    MkError("Error", <<"API rate limit exceeded after multiple retries.">>)

Pow2(n) == IF n <= 0 THEN 1 ELSE 2 ^ n

(* A delay that grows by initialDelay with every retry *)
BackoffDelayLinear(initialDelay, retries, jitter) ==
    initialDelay * retries + jitter

(* initialDelay * Math.pow(2, retries - 1) + Math.random() * 1000 *)
BackoffDelay(initialDelay, retries, jitter) ==
    initialDelay * Pow2(retries - 1) + jitter

(* The wrapper entered: retries = 0 and the first apiCall() issued *)
CallStart(maxRetries, initialDelay) ==
    [state |-> "inflight", retries |-> 0, attempts |-> 1,
     maxRetries |-> maxRetries, initialDelay |-> initialDelay,
     delay |-> 0, value |-> NoValue, error |-> NoError, logged |-> NoError]

CallIdle ==
    [state |-> "none", retries |-> 0, attempts |-> 0,
     maxRetries |-> 0, initialDelay |-> 0,
     delay |-> 0, value |-> NoValue, error |-> NoError, logged |-> NoError]

(* `return await apiCall()` when apiCall resolves with value *)
CallOnResolve(c, value) ==
    [c EXCEPT !.state = "returned", !.value = value]

(* A catch block that goes on retrying whatever the count *)
BudgetNeverExhausted(retries, maxRetries) == FALSE

(* Budget tests that are off by one, either way *)
BudgetExhaustedEarly(retries, maxRetries) == retries >= maxRetries
BudgetExhaustedLate(retries, maxRetries) == retries > maxRetries + 1

(* The budget test of the catch block *)
BudgetExhausted(retries, maxRetries) == retries > maxRetries

(* A thrown error that carries the last rate-limit error as its cause *)
ExhaustedThrowWithCause(error) == [RateLimitExceededError EXCEPT !.cause = error]

(* The error thrown when the budget is exhausted; the cause is only logged  *)
ExhaustedThrow(error) == RateLimitExceededError

(* The catch block, when apiCall rejects with error *)
CallOnReject(c, error, jitter) ==
    IF IsRateLimitError(error)
    THEN LET r == c.retries + 1 IN
         IF BudgetExhausted(r, c.maxRetries)
         THEN [c EXCEPT !.retries = r, !.state = "thrown",
                        !.error = ExhaustedThrow(error), !.logged = error]
         ELSE [c EXCEPT !.retries = r, !.state = "backoff",
                        !.delay = BackoffDelay(c.initialDelay, r, jitter)]
    ELSE [c EXCEPT !.state = "thrown", !.error = error]

(* The backoff timer fires: the loop runs apiCall() again *)
CallOnTimer(c) ==
    [c EXCEPT !.state = "inflight", !.attempts = @ + 1, !.delay = 0]

Jitters == {0, JitterRange - 1}

(* In the pipeline the length of a wait decides nothing but the order in    *)
(* which timers fire, and every order is explored                           *)
PipeJitters == {0}

(* One backend error of each kind the pipeline tells apart *)
PipeErrors == {Err429, ErrNetwork, ErrQuotaText}

----------------------------------------------------------------------------
(* Question, ParsedNotes, Result (types.ts) and the backend's responses *)

(* The question lists up to MaxQuestions long, up to renaming: the texts    *)
(* are numbered in the order of their first appearance, so that every       *)
(* pattern of repeated texts occurs once; the marks differ from position to *)
(* position, so that two questions of one text can be told apart            *)
TextNames == <<"q1", "q2", "q3", "q4", "q5", "q6">>

MarksAt(i) ==
    CASE i = 1 -> NULL [] i = 2 -> "5 marks" [] i = 3 -> "10m" [] OTHER -> "2 marks"

Distinct(p) == Cardinality({p[i] : i \in 1..Len(p)})

RECURSIVE TextPatterns(_)
TextPatterns(n) ==
    IF n = 0 THEN {<<>>}
    ELSE {Append(p, k) : p \in TextPatterns(n - 1), k \in 1..n}

FirstAppearanceOrder(p) ==
    \A i \in 1..Len(p) : p[i] <= Distinct(SubSeq(p, 1, i - 1)) + 1

QuestionLists ==
    UNION { { [i \in 1..n |-> [text |-> TextNames[p[i]], marks |-> MarksAt(i)]] :
                p \in {r \in TextPatterns(n) : FirstAppearanceOrder(r)} } :
            n \in 0..MaxQuestions }

Notes ==
    [text |-> <<"notes">>,
     images |-> << [data |-> "AAAA", mimeType |-> "image/png"],
                   [data |-> "BBBB", mimeType |-> "image/jpeg"] >>]

NoImage == [kind |-> "null"]
DataUri(mimeType, data) == [kind |-> "data", mimeType |-> mimeType, data |-> data]

MkResult(question, marks, answer, imageUrl, sources) ==
    [question |-> question, marks |-> marks, answer |-> answer,
     imageUrl |-> imageUrl, sources |-> sources]

UndefinedResult == [undefined |-> TRUE]

(* A line of text is a sequence of fragments; a text is a sequence of lines *)
UsePrefix == "USE_IMAGE:"
GenPrefix == "GENERATE_IMAGE_PROMPT:"
Space == " "

(* GenerateContentResponse: text (possibly undefined) and, through          *)
(* candidates[0].groundingMetadata, the grounding chunks (possibly absent)  *)
TextResponse(lines, hasChunks, chunks) ==
    [hasText |-> TRUE, text |-> lines, hasChunks |-> hasChunks, chunks |-> chunks]
NoTextResponse ==
    [hasText |-> FALSE, text |-> <<>>, hasChunks |-> FALSE, chunks |-> <<>>]

WebChunk(uri, title) == [hasWeb |-> TRUE, uri |-> uri, title |-> title]
BareChunk == [hasWeb |-> FALSE, uri |-> "", title |-> ""]

ProbeResponses ==
    { TextResponse(<< <<"Y", "E", "S">> >>, FALSE, <<>>),
      TextResponse(<< <<"n", "o">>, <<>> >>, FALSE, <<>>),
      NoTextResponse }

SynthResponses ==
    { TextResponse(<< <<"Answer with figure">>,
                      <<UsePrefix, Space, "[Image 2]">> >>,
                   TRUE, <<WebChunk("https://a.example", "A"), BareChunk,
                           WebChunk("", "untitled")>>),
      TextResponse(<< <<GenPrefix, Space, "a cat">>,
                      <<"Answer with drawing">>, <<>> >>,
                   TRUE, <<WebChunk("https://b.example", "B")>>),
      NoTextResponse }

(* GenerateImagesResponse *)
ImageResponses ==
    { [generatedImages |-> << [imageBytes |-> "CCCC"] >>],
      [generatedImages |-> <<>>] }

----------------------------------------------------------------------------
(* String helpers *)

ToUpperCase(ch) ==
    CASE ch = "n" -> "N" [] ch = "o" -> "O" [] ch = "y" -> "Y"
      [] ch = "e" -> "E" [] ch = "s" -> "S" [] ch = "t" -> "T"
      [] OTHER -> ch

(* Characters of a text whose lines are sequences of characters, joined by  *)
(* newlines                                                                 *)
RECURSIVE JoinChars(_)
JoinChars(lines) ==
    IF Len(lines) = 0 THEN <<>>
    ELSE IF Len(lines) = 1 THEN lines[1]
    ELSE lines[1] \o <<"\n">> \o JoinChars(Tail(lines))

IsSpaceChar(ch) == ch \in {Space, "\n", "\t"}

RECURSIVE TrimStart(_)
TrimStart(str) ==
    IF Len(str) > 0 /\ IsSpaceChar(str[1]) THEN TrimStart(Tail(str)) ELSE str

RECURSIVE TrimEnd(_)
TrimEnd(str) ==
    IF Len(str) > 0 /\ IsSpaceChar(str[Len(str)])
    THEN TrimEnd(SubSeq(str, 1, Len(str) - 1)) ELSE str

Trim(str) == TrimEnd(TrimStart(str))

(* includes('NO') on a sequence of characters *)
IncludesNO(str) ==
    \E i \in 1..(Len(str) - 1) : str[i] = "N" /\ str[i + 1] = "O"

(* A test that takes only the single word NO for a no *)
NeedsWebSearchExactWord(text) ==
    LET t == Trim(JoinChars(text)) IN
    [i \in 1..Len(t) |-> ToUpperCase(t[i])] = <<"N", "O">>

(* webSearchCheckResponse.text.trim().toUpperCase().includes('NO') *)
NeedsWebSearch(text) ==
    LET t == Trim(JoinChars(text)) IN
    IncludesNO([i \in 1..Len(t) |-> ToUpperCase(t[i])])

----------------------------------------------------------------------------
(* parseAiResponse *)

StartsWith(line, prefix) == Len(line) > 0 /\ line[1] = prefix

IsDirectiveLine(line) == StartsWith(line, UsePrefix) \/ StartsWith(line, GenPrefix)

(* lines.find(...): the index of the first directive line, 0 when none *)
FindDirective(lines) ==
    IF \E i \in 1..Len(lines) : IsDirectiveLine(lines[i])
    THEN CHOOSE i \in 1..Len(lines) :
            /\ IsDirectiveLine(lines[i])
            /\ \A j \in 1..(i - 1) : ~IsDirectiveLine(lines[j])
    ELSE 0

IsBlankLine(line) == \A i \in 1..Len(line) : IsSpaceChar(line[i])

(* answerLines.join('\n').trim(), kept as lines: blank lines at both ends   *)
(* go, and so does the white space around the text that is left             *)
RECURSIVE TrimLinesStart(_)
TrimLinesStart(lines) ==
    IF Len(lines) = 0 THEN <<>>
    ELSE IF IsBlankLine(lines[1]) THEN TrimLinesStart(Tail(lines))
    ELSE <<TrimStart(lines[1])>> \o Tail(lines)

RECURSIVE TrimLinesEnd(_)
TrimLinesEnd(lines) ==
    IF Len(lines) = 0 THEN <<>>
    ELSE IF IsBlankLine(lines[Len(lines)])
         THEN TrimLinesEnd(SubSeq(lines, 1, Len(lines) - 1))
    ELSE SubSeq(lines, 1, Len(lines) - 1) \o <<TrimEnd(lines[Len(lines)])>>

TrimLines(lines) == TrimLinesEnd(TrimLinesStart(lines))

NoDirective == <<>>

parseAiResponse(lines) ==
    LET d == FindDirective(lines) IN
    [answer |-> TrimLines(SelectSeq(lines, LAMBDA l : ~IsDirectiveLine(l))),
     imageDirective |-> IF d = 0 THEN NoDirective ELSE Trim(lines[d])]

----------------------------------------------------------------------------
(* processSingleQuestion: citations, image resolution, fallback *)

(* groundingChunks?.map(uri: web?.uri || '', title: web?.title || '')       *)
(*                 .filter(source => source.uri) || []                      *)
ChunkSource(chunk) ==
    IF chunk.hasWeb THEN [uri |-> chunk.uri, title |-> chunk.title]
    ELSE [uri |-> "", title |-> ""]

(* Citations that keep the chunks without a web uri *)
SourcesUnfiltered(response) ==
    IF ~response.hasChunks THEN <<>>
    ELSE [i \in 1..Len(response.chunks) |-> ChunkSource(response.chunks[i])]

Sources(response) ==
    IF ~response.hasChunks THEN <<>>
    ELSE SelectSeq([i \in 1..Len(response.chunks) |-> ChunkSource(response.chunks[i])],
                   LAMBDA src : src.uri # "")

(* imageDirective.match(/\[Image (\d+)\]/) and parseInt: the number of the  *)
(* first image reference of the directive, -1 when there is none            *)
ImageRefNumber(frag) ==
    CASE frag = "[Image 0]" -> 0 [] frag = "[Image 1]" -> 1
      [] frag = "[Image 2]" -> 2 [] frag = "[Image 3]" -> 3
      [] OTHER -> -1

MatchImageRef(directive) ==
    IF \E i \in 1..Len(directive) : ImageRefNumber(directive[i]) >= 0
    THEN LET i == CHOOSE i \in 1..Len(directive) :
                    /\ ImageRefNumber(directive[i]) >= 0
                    /\ \A j \in 1..(i - 1) : ImageRefNumber(directive[j]) < 0
         IN ImageRefNumber(directive[i])
    ELSE -1

(* A lookup that takes the number of the directive for a 0-based index *)
ReusedImageZeroBased(notes, directive) ==
    LET n == MatchImageRef(directive) IN
    IF n >= 0 /\ n < Len(notes.images)
    THEN DataUri(notes.images[n + 1].mimeType, notes.images[n + 1].data)
    ELSE NoImage

(* A lookup that falls back on the last image when the number fits none *)
ReusedImageClamped(notes, directive) ==
    LET n == MatchImageRef(directive)
        last == Len(notes.images) IN
    IF n >= 1 /\ n <= last
    THEN DataUri(notes.images[n].mimeType, notes.images[n].data)
    ELSE IF last > 0
    THEN DataUri(notes.images[last].mimeType, notes.images[last].data)
    ELSE NoImage

(* The USE_IMAGE branch *)
ReusedImage(notes, directive) ==
    LET n == MatchImageRef(directive)
        imageIndex == n - 1 IN
    IF n >= 0 /\ imageIndex >= 0 /\ imageIndex < Len(notes.images)
    THEN DataUri(notes.images[imageIndex + 1].mimeType, notes.images[imageIndex + 1].data)
    ELSE NoImage

(* A prompt that keeps the white space around it *)
ImagePromptUntrimmed(directive) == Tail(directive)

(* imageDirective.replace("GENERATE_IMAGE_PROMPT:", "").trim() *)
ImagePrompt(directive) == Trim(Tail(directive))

(* The image of a settled generateImages call *)
GeneratedImage(response) ==
    IF Len(response.generatedImages) > 0
    THEN DataUri("image/jpeg", response.generatedImages[1].imageBytes)
    ELSE NoImage

(* The image decision, up to the call it may issue: the image a USE_IMAGE   *)
(* directive resolves to, and whether a GENERATE_IMAGE_PROMPT directive     *)
(* with a non-empty prompt asks for a generation call                       *)
ResolveImage(notes, directive) ==
    LET generate == /\ ~StartsWith(directive, UsePrefix)
                    /\ StartsWith(directive, GenPrefix)
                    /\ Len(ImagePrompt(directive)) > 0 IN
    [imageUrl |-> IF StartsWith(directive, UsePrefix)
                  THEN ReusedImage(notes, directive) ELSE NoImage,
     generate |-> generate,
     prompt |-> IF generate THEN ImagePrompt(directive) ELSE <<>>]

GenericFallback ==
    "Sorry, an error occurred while generating the answer for this question. Please try again."
RateLimitFallback ==
    "Could not generate an answer due to API rate limits. Please try again later or process fewer questions at once."
CriticalFallback == "A critical error occurred while processing this question."

(* A catch block that looks for the words of the wrapper's own error only *)
FallbackAnswerRateLimitOnly(error) ==
    IF Includes(error.message, FragRateLimit)
    THEN RateLimitFallback ELSE GenericFallback

(* The catch block of processSingleQuestion: the error becomes a Result *)
FallbackAnswer(error) ==
    IF Includes(error.message, FragExhausted) \/ Includes(error.message, FragRateLimit)
    THEN RateLimitFallback ELSE GenericFallback

Returned(result) == [kind |-> "return", result |-> result, error |-> NoError]
Thrown(error) == [kind |-> "throw", result |-> UndefinedResult, error |-> error]

(* A catch block that logs the error and throws it again *)
ProcessCatchRethrows(questionObj, error) == Thrown(error)

(* The catch block of processSingleQuestion: it returns the fallback Result *)
ProcessCatch(questionObj, error) ==
    Returned(MkResult(questionObj.text, questionObj.marks,
                      <<<<FallbackAnswer(error)>>>>, NoImage, <<>>))

(* An inner catch block that hands the error on to the outer one *)
ImageCatchRethrows(questionObj, loc, error) == ProcessCatch(questionObj, error)

(* The inner catch block around the image-generation call: the error is     *)
(* logged, imageUrl stays null, and the Result is built from the answer and *)
(* the sources of the synthesis                                             *)
ImageCatch(questionObj, loc, error) ==
    Returned(MkResult(questionObj.text, questionObj.marks,
                      loc.answer, NoImage, loc.sources))

----------------------------------------------------------------------------
(* generateAnswers: the worker pool *)

(* A pool with one worker for every question *)
WorkerPerQuestion == 1..Len(questions)

Workers == 1..CONCURRENCY_LIMIT

Stages == {"probe", "synth", "image"}

LocalIdle ==
    [needsWebSearch |-> FALSE, answer |-> <<>>, sources |-> <<>>,
     prompt |-> <<>>]

(* A backend call in flight: who issued it, for which question, which kind, *)
(* with the web-search tool or not, with which image prompt                 *)
Flight(w, q, kind, tools, prompt) ==
    [worker |-> w, question |-> q, kind |-> kind, tools |-> tools, prompt |-> prompt]

FlightOf(w) == {f \in inflight : f.worker = w}

(* A loop test that leaves the last queued question behind *)
WorkerLoopCondOffByOne(queue) == Len(queue) > 1

(* The loop test of the worker *)
WorkerLoopCond(queue) == Len(queue) > 0

(* A map that keeps the value a key was first set to *)
MapSetKeepsFirst(map, key, value) ==
    [k \in DOMAIN map \cup {key} |-> IF k \in DOMAIN map THEN map[k] ELSE value]

(* Map.prototype.set and Map.prototype.get *)
MapSet(map, key, value) ==
    [k \in DOMAIN map \cup {key} |-> IF k = key THEN value ELSE map[k]]

MapGet(map, key) == IF key \in DOMAIN map THEN map[key] ELSE UndefinedResult

(* A stage of one question: its name and the state of its wrapped call      *)
(* ("pending", "returned", "threw", or "none" for a stage without a call)   *)
StageEntry(stage, callState) == [stage |-> stage, call |-> callState]
EnterStage(log, stage, callState) == Append(log, StageEntry(stage, callState))
SettleStage(log, callState) == [log EXCEPT ![Len(log)].call = callState]

(* A stage order that goes from the probe straight to the image *)
StageAfterSkipsSynthesis(stage) == "image"

(* The order of the awaits of processSingleQuestion *)
StageAfter(stage) == IF stage = "probe" THEN "synth" ELSE "image"

(* A read of the head of the queue that leaves it in the queue *)
QueuePeek(queue) == [question |-> Head(queue), queue |-> queue]

(* A removal at the tail of the queue *)
QueuePop(queue) ==
    [question |-> queue[Len(queue)], queue |-> SubSeq(queue, 1, Len(queue) - 1)]

(* A shift that hands out the last queued question and leaves it queued *)
QueueShiftKeepsLast(queue) ==
    [question |-> Head(queue),
     queue |-> IF Len(queue) = 1 THEN queue ELSE Tail(queue)]

(* questionQueue.shift(): the first element, and the queue without it *)
QueueShift(queue) == [question |-> Head(queue), queue |-> Tail(queue)]

(* A queue that is the caller's array itself (questionQueue = questions):   *)
(* what is shifted off the queue is gone from the caller's array            *)
QuestionsAfterShiftAliased(array, queueAfter) == queueAfter

(* const questionQueue = [...questions] is an array of its own: a shift of  *)
(* the queue leaves the array of the caller as it is                        *)
QuestionsAfterShift(array, queueAfter) == array

(* The head of the worker's loop, up to its first await: leave when the     *)
(* queue is empty, else shift a question and enter processSingleQuestion,   *)
(* which issues the relevance probe through callApiWithRetry.               *)
WorkerTake(st, w) ==
    IF WorkerLoopCond(st.queue)
    THEN LET shifted == QueueShift(st.queue)
             q == shifted.question IN
         [st EXCEPT !.queue = shifted.queue,
                    !.input = QuestionsAfterShift(@, shifted.queue),
                    !.dequeueLog = Append(@, q),
                    !.stageLog[q] = EnterStage(@, "probe", "pending"),
                    !.pc[w] = "probe",
                    !.cur[w] = q,
                    !.call[w] = CallStart(DefaultMaxRetries, DefaultInitialDelay),
                    !.local[w] = LocalIdle,
                    !.inflight = @ \cup {Flight(w, q, "probe", FALSE, <<>>)}]
    ELSE [st EXCEPT !.pc[w] = "done", !.cur[w] = 0,
                    !.call[w] = CallIdle, !.local[w] = LocalIdle]

(* Array(CONCURRENCY_LIMIT).fill(null).map(worker): the workers are started *)
(* one after the other, each running to its first await                     *)
RECURSIVE StartWorkers(_, _)
StartWorkers(st, w) ==
    IF w \notin Workers THEN st ELSE StartWorkers(WorkerTake(st, w), w + 1)

PoolState ==
    [queue |-> questionQueue, pc |-> pc, cur |-> cur, call |-> call,
     local |-> local, inflight |-> inflight, dequeueLog |-> dequeueLog,
     stageLog |-> stageLog, input |-> inputArray]

SetPool(st) ==
    /\ questionQueue' = st.queue
    /\ pc' = st.pc
    /\ cur' = st.cur
    /\ call' = st.call
    /\ local' = st.local
    /\ inflight' = st.inflight
    /\ dequeueLog' = st.dequeueLog
    /\ stageLog' = st.stageLog
    /\ inputArray' = st.input

NoParse == [none |-> TRUE]
NoReply == [none |-> TRUE]

(* The config of a synthesis call not issued yet *)
NoConfig == [issued |-> FALSE, tools |-> <<>>]

(* No synthesis response under study *)
ParseIdle ==
    /\ probeReply = NoReply
    /\ synthConfig = NoConfig
    /\ fullText = <<>>
    /\ parsePc = "idle"
    /\ parseOut = NoParse
    /\ imageOut = NoImage
    /\ imageCalls = <<>>
    /\ imageReply = NoReply

NoPdf == [none |-> TRUE]
NoDocument == [none |-> TRUE]

(* parseNoteFiles not called *)
NormIdle ==
    /\ files = <<>>
    /\ normPc = "idle"
    /\ fileIdx = 0
    /\ combinedText = <<>>
    /\ allImages = <<>>
    /\ pdf = NoPdf
    /\ normResult = NoDocument
    /\ parsedDocs = <<>>

NoQuestions == [none |-> TRUE]

(* extractQuestionsFromFile not called *)
ExtractIdle ==
    /\ extractPc = "idle"
    /\ extractReply = NoReply
    /\ extractOut = NoQuestions

(* App state error: null, or a message *)
NoUiError == [shown |-> FALSE, message |-> <<>>]
UiError(message) == [shown |-> TRUE, message |-> message]

(* The App component not mounted *)
AppIdle ==
    /\ selected = [notes |-> FALSE, questions |-> FALSE]
    /\ appPc = "unmounted"
    /\ isLoading = FALSE
    /\ errorState = NoUiError
    /\ results = <<>>
    /\ runs = 0
    /\ errorLog = <<>>
    /\ failedAt = "none"

PipeInit ==
    /\ questions \in QuestionLists
    /\ notesData = Notes
    /\ inputArray = [i \in 1..Len(questions) |-> i]
    /\ phase = "idle"
    /\ questionQueue = <<>>
    /\ resultsMap = <<>>
    /\ completedCount = 0
    /\ pc = [w \in Workers |-> "idle"]
    /\ cur = [w \in Workers |-> 0]
    /\ call = [w \in Workers |-> CallIdle]
    /\ local = [w \in Workers |-> LocalIdle]
    /\ inflight = {}
    /\ output = <<>>
    /\ progressLog = <<>>
    /\ produced = [i \in 1..Len(questions) |-> UndefinedResult]
    /\ failStage = [i \in 1..Len(questions) |-> "none"]
    /\ failCause = [i \in 1..Len(questions) |-> NoError]
    /\ dequeueLog = <<>>
    /\ stageLog = [i \in 1..Len(questions) |-> <<>>]
    /\ resultCount = [i \in 1..Len(questions) |-> 0]
    /\ progressSnap = <<>>

Init ==
    /\ PipeInit
    /\ wrapped = CallIdle
    /\ apiLog = <<>>
    /\ delayLog = <<>>
    /\ ParseIdle
    /\ NormIdle
    /\ ExtractIdle
    /\ AppIdle

(* generateAnswers is called: the synchronous part, up to `await Promise.all` *)
FreshPool(n) ==
    [queue |-> [i \in 1..n |-> i],
     pc |-> [w \in Workers |-> "idle"],
     cur |-> [w \in Workers |-> 0],
     call |-> [w \in Workers |-> CallIdle],
     local |-> [w \in Workers |-> LocalIdle],
     inflight |-> {},
     dequeueLog |-> <<>>,
     stageLog |-> [i \in 1..n |-> <<>>],
     input |-> [i \in 1..n |-> i]]

BeginGenerate(n) ==
    /\ phase' = "running"
    /\ resultsMap' = <<>>
    /\ completedCount' = 0
    /\ SetPool(StartWorkers(FreshPool(n), 1))

Start ==
    /\ phase = "idle"
    /\ BeginGenerate(Len(questions))
    /\ UNCHANGED <<questions, notesData, output, progressLog, produced,
                   failStage, failCause, resultCount, progressSnap, besidePipe>>

shared == <<resultsMap, completedCount, progressLog, produced, failStage,
           failCause, resultCount, progressSnap>>

(* The catch block of the worker *)
WorkerCatch(questionObj, outcome) ==
    IF outcome.kind = "return" THEN outcome.result
    ELSE MkResult(questionObj.text, questionObj.marks,
                  <<<<CriticalFallback>>>>, NoImage, <<>>)

(* A finally block that reports before it counts *)
WorkerFinallyReportsFirst(count, log, total) ==
    [completedCount |-> count + 1,
     progressLog |-> Append(log, <<count, total>>),
     threw |-> FALSE]

(* A finally block whose report throws *)
WorkerFinallyThrows(count, log, total) ==
    [completedCount |-> count + 1,
     progressLog |-> log,
     threw |-> TRUE]

(* The finally block of the worker: count, then report; the callback of the *)
(* caller (handleGenerateClick) sets state and does not throw               *)
WorkerFinally(count, log, total) ==
    [completedCount |-> count + 1,
     progressLog |-> Append(log, <<count + 1, total>>),
     threw |-> FALSE]

(* What is the case at one moment of the worker's turn for question q: how  *)
(* many input questions have a stored Result, whether q has one, whether    *)
(* the worker still holds q                                                 *)
Moment(counts, q, held) ==
    [completed |-> Cardinality({i \in DOMAIN counts : counts[i] > 0}),
     own |-> counts[q] > 0,
     holds |-> held = q]

(* A report that is made after the worker has gone round its loop *)
ReportMomentAfterTake(beforeStore, afterStore, afterTake) == afterTake

(* The moment of the worker's turn at which onProgress is called: in the    *)
(* finally block, after resultsMap.set and before the loop test             *)
ReportMoment(beforeStore, afterStore, afterTake) == afterStore

(* processSingleQuestion settles with outcome (stage is the stage whose     *)
(* call threw cause, "none" when none did; callState tells whether the call *)
(* of the current stage returned or threw): its continuation, the worker,   *)
(* runs in the same turn, stores the Result, counts and reports, then goes  *)
(* round its loop                                                           *)
Resume(w, outcome, stage, cause, callState) ==
    LET q == cur[w]
        result == WorkerCatch(questions[q], outcome)
        fin == WorkerFinally(completedCount, progressLog, Len(questions))
        settled == SettleStage(stageLog[q], callState)
        st == [PoolState EXCEPT
                 !.inflight = @ \ FlightOf(w),
                 !.stageLog[q] = IF pc[w] = "synth" /\ stage = "none"
                                 THEN EnterStage(settled, StageAfter("synth"), "none")
                                 ELSE settled]
        stored == [resultCount EXCEPT ![q] = @ + 1]
        taken == WorkerTake(st, w) IN
    /\ resultsMap' = MapSet(resultsMap, questions[q].text, result)
    /\ produced' = [produced EXCEPT ![q] = result]
    /\ failStage' = [failStage EXCEPT ![q] = stage]
    /\ failCause' = [failCause EXCEPT ![q] = cause]
    /\ resultCount' = stored
    /\ completedCount' = fin.completedCount
    /\ progressLog' = fin.progressLog
    /\ progressSnap' =
          IF fin.progressLog = progressLog THEN progressSnap
          ELSE Append(progressSnap,
                      ReportMoment(Moment(resultCount, q, cur[w]),
                                   Moment(stored, q, cur[w]),
                                   Moment(stored, q, taken.cur[w])))
    /\ IF fin.threw
       THEN SetPool([st EXCEPT !.pc[w] = "rejected", !.cur[w] = 0,
                               !.call[w] = CallIdle, !.local[w] = LocalIdle])
       ELSE SetPool(taken)

(* A stage that issues its call beside the call of the stage before it *)
NextStageBesidePrevious(w, stage, loc, flight) ==
    /\ SetPool([PoolState EXCEPT
                  !.pc[w] = stage,
                  !.call[w] = CallStart(DefaultMaxRetries, DefaultInitialDelay),
                  !.local[w] = loc,
                  !.stageLog[cur[w]] = EnterStage(@, stage, "pending"),
                  !.inflight = @ \cup {flight}])
    /\ UNCHANGED shared

(* The wrapped call of the stage returns: the next wrapped call is issued *)
NextStage(w, stage, loc, flight) ==
    /\ SetPool([PoolState EXCEPT
                  !.pc[w] = stage,
                  !.call[w] = CallStart(DefaultMaxRetries, DefaultInitialDelay),
                  !.local[w] = loc,
                  !.stageLog[cur[w]] =
                      EnterStage(SettleStage(@, "returned"), stage, "pending"),
                  !.inflight = (@ \ FlightOf(w)) \cup {flight}])
    /\ UNCHANGED shared

(* The relevance probe resolves *)
ProbeResolves(w) ==
    /\ phase = "running" /\ pc[w] = "probe" /\ call[w].state = "inflight"
    /\ \E response \in ProbeResponses :
         LET c == CallOnResolve(call[w], response)
             q == cur[w] IN
         IF c.value.hasText
         THEN LET web == NeedsWebSearch(c.value.text) IN
              NextStage(w, StageAfter("probe"),
                        [local[w] EXCEPT !.needsWebSearch = web],
                        Flight(w, q, StageAfter("probe"), web, <<>>))
         ELSE Resume(w, ProcessCatch(questions[q], ErrTypeError), "probe",
                     ErrTypeError, "returned")
    /\ UNCHANGED <<questions, notesData, phase, output, besidePipe>>

(* The synthesis call resolves: parse, cite, resolve the image *)
SynthResolves(w) ==
    /\ phase = "running" /\ pc[w] = "synth" /\ call[w].state = "inflight"
    /\ \E response \in SynthResponses :
         LET c == CallOnResolve(call[w], response)
             q == cur[w]
             questionObj == questions[q]
             parsed == parseAiResponse(c.value.text)
             sources == Sources(c.value)
             image == ResolveImage(notesData, parsed.imageDirective) IN
         IF ~c.value.hasText
         THEN Resume(w, ProcessCatch(questionObj, ErrTypeError), "synth",
                     ErrTypeError, "returned")
         ELSE IF image.generate
         THEN NextStage(w, StageAfter("synth"),
                        [local[w] EXCEPT !.answer = parsed.answer,
                                         !.sources = sources,
                                         !.prompt = image.prompt],
                        Flight(w, q, StageAfter("synth"), FALSE, image.prompt))
         ELSE Resume(w, Returned(MkResult(questionObj.text, questionObj.marks,
                                          parsed.answer, image.imageUrl, sources)),
                     "none", NoError, "returned")
    /\ UNCHANGED <<questions, notesData, phase, output, besidePipe>>

(* The image-generation call resolves *)
ImageResolves(w) ==
    /\ phase = "running" /\ pc[w] = "image" /\ call[w].state = "inflight"
    /\ \E response \in ImageResponses :
         LET c == CallOnResolve(call[w], response)
             questionObj == questions[cur[w]] IN
         Resume(w, Returned(MkResult(questionObj.text, questionObj.marks,
                                     local[w].answer, GeneratedImage(c.value),
                                     local[w].sources)), "none", NoError,
                "returned")
    /\ UNCHANGED <<questions, notesData, phase, output, besidePipe>>

(* A backend call rejects: the catch block of callApiWithRetry, and when it *)
(* throws, the catch block around the stage: the inner one of the image     *)
(* stage, that of processSingleQuestion for the other stages                *)
CallRejects(w) ==
    /\ phase = "running" /\ pc[w] \in Stages /\ call[w].state = "inflight"
    /\ \E error \in PipeErrors, jitter \in PipeJitters :
         LET c == CallOnReject(call[w], error, jitter)
             questionObj == questions[cur[w]] IN
         IF c.state = "backoff"
         THEN /\ SetPool([PoolState EXCEPT !.call[w] = c,
                                           !.inflight = @ \ FlightOf(w)])
              /\ UNCHANGED shared
         ELSE IF pc[w] = "image"
         THEN Resume(w, ImageCatch(questionObj, local[w], c.error), "image",
                     c.error, "threw")
         ELSE Resume(w, ProcessCatch(questionObj, c.error), pc[w], c.error,
                     "threw")
    /\ UNCHANGED <<questions, notesData, phase, output, besidePipe>>

(* A backoff timer fires: callApiWithRetry calls the backend again *)
TimerFires(w) ==
    /\ phase = "running" /\ pc[w] \in Stages /\ call[w].state = "backoff"
    /\ SetPool([PoolState EXCEPT
                  !.call[w] = CallOnTimer(call[w]),
                  !.inflight = @ \cup
                     {Flight(w, cur[w], pc[w],
                             pc[w] = "synth" /\ local[w].needsWebSearch,
                             IF pc[w] = "image" THEN local[w].prompt ELSE <<>>)}])
    /\ UNCHANGED <<shared, questions, notesData, phase, output, besidePipe>>

(* A combinator that settles with the first worker that settles *)
PromiseRace(pcs) ==
    IF \E w \in DOMAIN pcs : pcs[w] = "rejected" THEN "rejected"
    ELSE IF \E w \in DOMAIN pcs : pcs[w] = "done" THEN "resolved"
    ELSE "pending"

(* Promise.all over the workers' promises *)
PromiseAll(pcs) ==
    IF \E w \in DOMAIN pcs : pcs[w] = "rejected" THEN "rejected"
    ELSE IF \A w \in DOMAIN pcs : pcs[w] = "done" THEN "resolved"
    ELSE "pending"

(* `await Promise.all(workers)` settles: generateAnswers returns            *)
(* questions.map(q => resultsMap.get(q.text)!), or rejects                  *)
Finish ==
    /\ phase = "running"
    /\ PromiseAll(pc) # "pending"
    /\ phase' = PromiseAll(pc)
    /\ output' = IF PromiseAll(pc) = "resolved"
                 THEN [i \in 1..Len(inputArray) |->
                          MapGet(resultsMap, questions[inputArray[i]].text)]
                 ELSE output
    /\ UNCHANGED <<questions, notesData, inputArray, questionQueue, resultsMap, completedCount,
                   pc, cur, call, local, inflight, progressLog, produced,
                   failStage, failCause, dequeueLog, stageLog, resultCount,
                   progressSnap, besidePipe>>

Next ==
    \/ Start
    \/ \E w \in Workers : ProbeResolves(w)
    \/ \E w \in Workers : SynthResolves(w)
    \/ \E w \in Workers : ImageResolves(w)
    \/ \E w \in Workers : CallRejects(w)
    \/ \E w \in Workers : TimerFires(w)
    \/ Finish

Spec == Init /\ [][Next]_vars

(* The same pipeline on an event loop that keeps running: what a worker is  *)
(* waiting for happens, be it the settling of its backend call (it resolves *)
(* or it rejects) or the firing of its backoff timer, and the continuation  *)
(* of a settled Promise.all runs                                            *)
Settles(w) ==
    ProbeResolves(w) \/ SynthResolves(w) \/ ImageResolves(w) \/ CallRejects(w)

EventLoopRuns ==
    /\ \A w \in Workers : WF_vars(Settles(w) \/ TimerFires(w))
    /\ WF_vars(Finish)

(* The question lists of every length up to MaxQuestions, with texts that   *)
(* differ: that two questions share a text changes what resultsMap holds,   *)
(* not which steps are taken                                                *)
FairQuestionLists ==
    {qs \in QuestionLists :
        \A i, j \in 1..Len(qs) : qs[i].text = qs[j].text => i = j}

FairInit == Init /\ questions \in FairQuestionLists

SpecFair == FairInit /\ [][Next]_vars /\ EventLoopRuns

----------------------------------------------------------------------------
(* callApiWithRetry run on its own, against a backend whose every attempt   *)
(* resolves or rejects as it pleases                                        *)

ApiValues == {[v |-> 1], [v |-> 2]}
LogOk(value) == [kind |-> "ok", value |-> value, error |-> NoError]
LogErr(error) == [kind |-> "err", value |-> NoValue, error |-> error]

PoolIdle ==
    /\ questions = <<>>
    /\ inputArray = <<>>
    /\ phase = "idle"
    /\ questionQueue = <<>>
    /\ resultsMap = <<>>
    /\ completedCount = 0
    /\ pc = <<>>
    /\ cur = <<>>
    /\ call = <<>>
    /\ local = <<>>
    /\ inflight = {}
    /\ output = <<>>
    /\ progressLog = <<>>
    /\ produced = <<>>
    /\ failStage = <<>>
    /\ failCause = <<>>
    /\ dequeueLog = <<>>
    /\ stageLog = <<>>
    /\ resultCount = <<>>
    /\ progressSnap = <<>>

PipeIdle ==
    /\ PoolIdle
    /\ notesData = [text |-> <<>>, images |-> <<>>]

(* The initial delays callApiWithRetry is run with: the default and a       *)
(* shorter one                                                              *)
InitialDelays == {DefaultInitialDelay, DefaultInitialDelay \div 4}

(* setTimeout(resolve, delay): the delays waited for so far *)
Waited(log, c) == IF c.state = "backoff" THEN Append(log, c.delay) ELSE log

RetryInit ==
    /\ PipeIdle
    /\ \E mr \in 0..MaxRetriesBound, initialDelay \in InitialDelays :
          wrapped = CallStart(mr, initialDelay)
    /\ apiLog = <<>>
    /\ delayLog = <<>>
    /\ ParseIdle
    /\ NormIdle
    /\ ExtractIdle
    /\ AppIdle

RetryApiResolves ==
    /\ wrapped.state = "inflight"
    /\ \E value \in ApiValues :
          /\ wrapped' = CallOnResolve(wrapped, value)
          /\ apiLog' = Append(apiLog, LogOk(value))
    /\ UNCHANGED <<delayLog, besideRetry>>

RetryApiRejects ==
    /\ wrapped.state = "inflight"
    /\ \E error \in BackendErrors, jitter \in Jitters :
          LET c == CallOnReject(wrapped, error, jitter) IN
          /\ wrapped' = c
          /\ apiLog' = Append(apiLog, LogErr(error))
          /\ delayLog' = Waited(delayLog, c)
    /\ UNCHANGED besideRetry

RetryTimerFires ==
    /\ wrapped.state = "backoff"
    /\ wrapped' = CallOnTimer(wrapped)
    /\ UNCHANGED <<apiLog, delayLog, besideRetry>>

RetryNext == RetryApiResolves \/ RetryApiRejects \/ RetryTimerFires

SpecRetry == RetryInit /\ [][RetryNext]_vars

----------------------------------------------------------------------------
(* extractQuestionsFromFile: one wrapped call of the model, whose response  *)
(* is parsed as JSON and mapped to Question[]                               *)

UNDEFINED == "undefined"

(* A parsed JSON value, as far as the code looks into it: its type and, for *)
(* an object, its property questions (absent, a string, or an array)        *)
JsonValue(type, questionsKind, items) ==
    [type |-> type, questionsKind |-> questionsKind, items |-> items]

(* The elements of a questions array: null, or an object with or without    *)
(* the properties questionText and marks                                    *)
JsonItem(isNull, questionText, marks) ==
    [isNull |-> isNull, questionText |-> questionText, marks |-> marks]
JsonItems ==
    { JsonItem(FALSE, "Q1", "5 marks"), JsonItem(FALSE, "Q2", NULL),
      JsonItem(FALSE, UNDEFINED, UNDEFINED), JsonItem(TRUE, UNDEFINED, UNDEFINED) }
JsonArrays == UNION {[1..n -> JsonItems] : n \in 0..MaxItems}
JsonValues ==
    { JsonValue("null", "absent", <<>>), JsonValue("number", "absent", <<>>),
      JsonValue("array", "absent", <<>>), JsonValue("object", "absent", <<>>),
      JsonValue("object", "string", <<>>) }
    \cup { JsonValue("object", "array", items) : items \in JsonArrays }

(* The text of a response: empty, white space only, not JSON, or the JSON   *)
(* text of a value (with or without white space around it)                  *)
JsonText(syntax, padded, value) ==
    [syntax |-> syntax, padded |-> padded, value |-> value]
JsonTexts ==
    { JsonText("empty", FALSE, JsonValue("null", "absent", <<>>)),
      JsonText("empty", TRUE, JsonValue("null", "absent", <<>>)),
      JsonText("invalid", FALSE, JsonValue("null", "absent", <<>>)) }
    \cup { JsonText("json", padded, value) :
             padded \in BOOLEAN, value \in JsonValues }

ExtractResponses ==
    { [hasText |-> TRUE, text |-> t] : t \in JsonTexts }
    \cup { [hasText |-> FALSE, text |-> JsonText("empty", FALSE,
                                                 JsonValue("null", "absent", <<>>))] }

(* String.prototype.trim on the text of a response *)
TrimJsonText(text) == [text EXCEPT !.padded = FALSE]

ErrSyntax == MkError("SyntaxError", <<"Unexpected end of JSON input">>)
ErrNoQuestions ==
    MkError("Error", <<"AI parsing completed, but no questions were found in the file.">>)
ErrSchema == MkError("Error", <<"Parsed JSON does not match the expected schema.">>)

(* JSON.parse: white space around a value is skipped; an empty text and a   *)
(* text that is not JSON throw a SyntaxError                                *)
JsonParse(text) ==
    IF text.syntax = "json"
    THEN [kind |-> "return", value |-> text.value, error |-> NoError]
    ELSE [kind |-> "throw", value |-> text.value, error |-> ErrSyntax]

(* The truthiness of a parsed value: null is falsy (the number is not 0) *)
Truthy(value) == value.type # "null"
(* Array.isArray(parsedObject.questions) *)
HasQuestionsArray(value) == value.type = "object" /\ value.questionsKind = "array"

(* q => ({ text: q.questionText, marks: q.marks }) *)
ToQuestion(item) == [text |-> item.questionText, marks |-> item.marks]

ExtractReturned(list) == [kind |-> "return", value |-> list, error |-> NoError]
ExtractThrown(error) == [kind |-> "throw", value |-> <<>>, error |-> error]

(* questions.map(...): reading a property of a null element throws *)
MapQuestions(items) ==
    IF \E i \in 1..Len(items) : items[i].isNull
    THEN ExtractThrown(ErrTypeError)
    ELSE ExtractReturned([i \in 1..Len(items) |-> ToQuestion(items[i])])

(* parsedObject.questions.length === 0 *)
IsEmptyList(items) == Len(items) = 0

(* The try block after the wrapped call has returned response *)
ExtractTry(response) ==
    IF ~response.hasText THEN ExtractThrown(ErrTypeError)
    ELSE LET parsed == JsonParse(TrimJsonText(response.text)) IN
         IF parsed.kind = "throw" THEN ExtractThrown(parsed.error)
         ELSE IF Truthy(parsed.value) /\ HasQuestionsArray(parsed.value)
         THEN IF IsEmptyList(parsed.value.items)
              THEN ExtractThrown(ErrNoQuestions)
              ELSE MapQuestions(parsed.value.items)
         ELSE ExtractThrown(ErrSchema)

ExtractionPrefix == "AI failed to extract questions. Original error: "

(* The catch block: every error leaves as a new Error with the message of   *)
(* the caught one after a fixed prefix                                      *)
ExtractCatch(error) == MkError("Error", <<ExtractionPrefix>> \o error.message)

(* What extractQuestionsFromFile settles with after the try block's outcome *)
ExtractSettle(outcome) ==
    IF outcome.kind = "return"
    THEN [pc |-> "returned", out |-> outcome.value]
    ELSE [pc |-> "thrown", out |-> ExtractCatch(outcome.error)]

ExtractInit ==
    /\ PipeIdle
    /\ wrapped = CallStart(DefaultMaxRetries, DefaultInitialDelay)
    /\ apiLog = <<>>
    /\ delayLog = <<>>
    /\ ParseIdle
    /\ NormIdle
    /\ extractPc = "call"
    /\ extractReply = NoReply
    /\ extractOut = NoQuestions
    /\ AppIdle

(* generateContent resolves: the wrapped call returns, the rest of the try  *)
(* block runs                                                               *)
ExtractApiResolves ==
    /\ extractPc = "call"
    /\ wrapped.state = "inflight"
    /\ \E response \in ExtractResponses :
          LET settled == ExtractSettle(ExtractTry(response)) IN
          /\ wrapped' = CallOnResolve(wrapped, response)
          /\ extractReply' = response
          /\ extractPc' = settled.pc
          /\ extractOut' = settled.out
    /\ UNCHANGED <<apiLog, delayLog, besideExtract>>

(* generateContent rejects: the wrapped call backs off, or throws into the  *)
(* catch block                                                              *)
ExtractApiRejects ==
    /\ extractPc = "call"
    /\ wrapped.state = "inflight"
    /\ \E error \in BackendErrors, jitter \in Jitters :
          LET c == CallOnReject(wrapped, error, jitter) IN
          /\ wrapped' = c
          /\ apiLog' = Append(apiLog, LogErr(error))
          /\ delayLog' = Waited(delayLog, c)
          /\ IF c.state = "thrown"
             THEN /\ extractPc' = "thrown"
                  /\ extractOut' = ExtractCatch(c.error)
             ELSE UNCHANGED <<extractPc, extractOut>>
    /\ UNCHANGED <<extractReply, besideExtract>>

ExtractTimerFires ==
    /\ extractPc = "call"
    /\ wrapped.state = "backoff"
    /\ wrapped' = CallOnTimer(wrapped)
    /\ UNCHANGED <<apiLog, delayLog, extractVars, besideExtract>>

ExtractNext == ExtractApiResolves \/ ExtractApiRejects \/ ExtractTimerFires

SpecExtract == ExtractInit /\ [][ExtractNext]_vars

----------------------------------------------------------------------------
(* processSingleQuestion for one question, from the response of the probe   *)
(* on: the tools of the synthesis call, parseAiResponse, the image          *)
(* decision, the image-generation call; for every short text of the         *)
(* synthesis and notes with zero, one or two images                         *)

(* The texts the probe answers with: YES; no and an empty line; No.; a      *)
(* sentence with the word notes; N O; ON; N and O on two lines              *)
ProbeTexts ==
    { << <<"Y", "E", "S">> >>,
      << <<"n", "o">>, <<>> >>,
      << <<"N", "o", ".">> >>,
      << <<"y", "e", "s", ",", Space, "n", "o", "t", "e", "s">> >>,
      << <<"N", Space, "O">> >>,
      << <<"O", "N">> >>,
      << <<"N">>, <<"O">> >> }

ProbeReplies ==
    {TextResponse(text, FALSE, <<>>) : text \in ProbeTexts} \cup {NoTextResponse}

(* config: { tools: needsWebSearch ? [{ googleSearch: {} }] : [] } *)
GoogleSearch == "googleSearch"
SynthConfig(needsWebSearch) ==
    [issued |-> TRUE,
     tools |-> IF needsWebSearch THEN <<GoogleSearch>> ELSE <<>>]

(* `[Image ${i + 1}]`: how the prompt names the images of the notes *)
ImageRef(k) ==
    CASE k = 0 -> "[Image 0]" [] k = 1 -> "[Image 1]"
      [] k = 2 -> "[Image 2]" [] OTHER -> "[Image 3]"

(* The lines a synthesis text is made of: prose, a blank line, USE_IMAGE    *)
(* lines (numbers 0 to 3, and one without a number), GENERATE_IMAGE_PROMPT  *)
(* lines (two prompts, and one with no prompt), and an indented directive   *)
ProseLine == <<"Answer">>
BlankLine == <<>>
UseLine(k) == <<UsePrefix, Space, ImageRef(k)>>
UseLineNoNumber == <<UsePrefix, Space, "the first image">>
GenLineCat == <<GenPrefix, Space, "a cat", Space>>
GenLineDog == <<GenPrefix, "a", Space, "dog">>
GenLineEmpty == <<GenPrefix, Space>>
IndentedUseLine == <<Space>> \o UseLine(1)

SynthLines ==
    {ProseLine, BlankLine, UseLineNoNumber, GenLineCat, GenLineDog,
     GenLineEmpty, IndentedUseLine} \cup {UseLine(k) : k \in 0..3}

(* text.split('\n') has at least one element *)
SynthTexts == UNION {[1..n -> SynthLines] : n \in 1..MaxLines}

NotesWith(n) == [Notes EXCEPT !.images = SubSeq(@, 1, n)]

ParseQuestion == [text |-> "q1", marks |-> NULL]

ParseInit ==
    /\ PoolIdle
    /\ \E n \in 0..Len(Notes.images) : notesData = NotesWith(n)
    /\ wrapped = CallIdle
    /\ apiLog = <<>>
    /\ delayLog = <<>>
    /\ probeReply = NoReply
    /\ synthConfig = NoConfig
    /\ fullText \in SynthTexts
    /\ parsePc = "probe"
    /\ parseOut = NoParse
    /\ imageOut = NoImage
    /\ imageCalls = <<>>
    /\ imageReply = NoReply
    /\ NormIdle
    /\ ExtractIdle
    /\ AppIdle

(* The probe returns: needsWebSearch is computed and the synthesis call is   *)
(* issued; reading the text of a response without text throws, and the      *)
(* question ends with the fallback Result                                   *)
ParseProbe ==
    /\ parsePc = "probe"
    /\ \E response \in ProbeReplies :
          /\ probeReply' = response
          /\ IF response.hasText
             THEN /\ synthConfig' = SynthConfig(NeedsWebSearch(response.text))
                  /\ parsePc' = "text"
             ELSE /\ synthConfig' = NoConfig
                  /\ parsePc' = "failed"
    /\ UNCHANGED <<fullText, parseOut, imageOut, imageCalls, imageReply,
                   besideParse>>

(* The synthesis call has returned fullText: parse it and decide the image, *)
(* up to the image-generation call or to the return                         *)
ParseSynthesis ==
    /\ parsePc = "text"
    /\ LET parsed == parseAiResponse(fullText)
           image == ResolveImage(notesData, parsed.imageDirective) IN
       /\ parseOut' = parsed
       /\ imageOut' = image.imageUrl
       /\ imageCalls' = IF image.generate THEN Append(imageCalls, image.prompt)
                        ELSE imageCalls
       /\ parsePc' = IF image.generate THEN "image" ELSE "done"
    /\ UNCHANGED <<probeVars, fullText, imageReply, besideParse>>

(* The image-generation call returns *)
ParseImageResolves ==
    /\ parsePc = "image"
    /\ \E response \in ImageResponses :
          /\ imageReply' = response
          /\ imageOut' = GeneratedImage(response)
    /\ parsePc' = "done"
    /\ UNCHANGED <<probeVars, fullText, parseOut, imageCalls, besideParse>>

(* The image-generation call throws *)
ParseImageRejects ==
    /\ parsePc = "image"
    /\ \E error \in {RateLimitExceededError, ErrNetwork} :
          /\ imageReply' = error
          /\ imageOut' = ImageCatch(ParseQuestion,
                                    [LocalIdle EXCEPT !.answer = parseOut.answer],
                                    error).result.imageUrl
    /\ parsePc' = "done"
    /\ UNCHANGED <<probeVars, fullText, parseOut, imageCalls, besideParse>>

ParseNext ==
    ParseProbe \/ ParseSynthesis \/ ParseImageResolves \/ ParseImageRejects

SpecParse == ParseInit /\ [][ParseNext]_vars

----------------------------------------------------------------------------
(* utils/fileParser: parseNoteFiles over a batch of files, with parsePdf,   *)
(* parseDocx and parseTextFile.  What a file holds is found out as it is    *)
(* read: the text and the images of a page, the images of a document.       *)

(* A base64 payload, kept as its first 100 characters and the rest *)
Payload(head, tail) == [head |-> head, tail |-> tail]
EmptyPayload == Payload("", "")
PayloadA == Payload("h1", "a")
PayloadB == Payload("h1", "b")
PayloadC == Payload("h2", "c")

(* img.data.substring(0, 100) *)
ImageKey(img) == img.data.head

(* ImagePart; origin records the page and the way the image came in *)
MkImage(data, mimeType, page, how) ==
    [data |-> data, mimeType |-> mimeType, origin |-> [page |-> page, how |-> how]]

(* A de-duplication that keeps every image *)
UniqueImagesKeepsAll(images) == images

(* Array.from(new Map(images.map(img => [key, img])).values()): one entry   *)
(* for every key, at the place of the first image of that key, holding the  *)
(* last image of that key                                                   *)
UniqueImages(images) ==
    LET IsFirstOfKey(i) ==
            \A j \in 1..(i - 1) : ImageKey(images[j]) # ImageKey(images[i])
        LastOfKey(key) ==
            images[CHOOSE i \in 1..Len(images) :
                      /\ ImageKey(images[i]) = key
                      /\ \A j \in (i + 1)..Len(images) : ImageKey(images[j]) # key]
        firsts == SelectSeq([i \in 1..Len(images) |-> i], IsFirstOfKey) IN
    [n \in 1..Len(firsts) |-> LastOfKey(ImageKey(images[firsts[n]]))]

(* File: name (stem and extension) and type *)
DocxType == "application/vnd.openxmlformats-officedocument.wordprocessingml.document"
MkFile(i, ext, type) ==
    [name |-> <<CASE i = 1 -> "f1" [] i = 2 -> "f2" [] OTHER -> "f3", ext>>,
     type |-> type]
FileKinds ==
    { [ext |-> ".pdf", type |-> "application/pdf"],
      [ext |-> ".docx", type |-> DocxType],
      [ext |-> ".docx", type |-> ""],
      [ext |-> ".txt", type |-> "text/plain"] }
FileLists ==
    UNION { { [i \in 1..n |-> MkFile(i, k[i].ext, k[i].type)] :
                k \in [1..n -> FileKinds] } : n \in 1..MaxFiles }

IsPdf(file) == file.type = "application/pdf"
IsDocx(file) == file.type = DocxType \/ file.name[Len(file.name)] = ".docx"

(* The text of a PDF page: its length, and how much of it is white space    *)
(* at its ends                                                              *)
PageTexts ==
    { [length |-> 99, padding |-> 0], [length |-> 100, padding |-> 0],
      [length |-> 120, padding |-> 30] }
TrimmedLength(pageText) == pageText.length - pageText.padding

(* What imageDataToBase64 gives for the embedded images of a page *)
EmbeddedLists == {<<>>, <<PayloadA>>, <<EmptyPayload>>}

(* What rendering a page gives: a payload (an empty one when toDataURL has  *)
(* no data), no 2d context, or an exception                                 *)
RenderOutcomes ==
    { [kind |-> "data", data |-> d] :
         d \in {PayloadA, PayloadB, PayloadC, EmptyPayload} }
    \cup { [kind |-> "nocontext", data |-> EmptyPayload],
           [kind |-> "throws", data |-> EmptyPayload] }

(* The img elements of a converted Word document: the src attribute *)
DocxSrcs ==
    { [scheme |-> "data", mime |-> "image/gif", data |-> PayloadA],
      [scheme |-> "data", mime |-> "", data |-> PayloadB],
      [scheme |-> "http", mime |-> "", data |-> EmptyPayload] }
DocxSrcLists == UNION {[1..n -> DocxSrcs] : n \in 0..2}

Separator == "\n\n---\n\n"

ProcessError(file) ==
    MkError("Error", <<"Failed to process ", file.name, ". It may be corrupted.">>)

NormInit ==
    /\ PipeIdle
    /\ wrapped = CallIdle
    /\ apiLog = <<>>
    /\ delayLog = <<>>
    /\ ParseIdle
    /\ ExtractIdle
    /\ AppIdle
    /\ files \in FileLists
    /\ normPc = "file"
    /\ fileIdx = 0
    /\ combinedText = <<>>
    /\ allImages = <<>>
    /\ pdf = NoPdf
    /\ normResult = NoDocument
    /\ parsedDocs = <<>>

CurrentFile == files[fileIdx + 1]

(* A parser has returned parsed: the rest of the loop body of               *)
(* parseNoteFiles, and its return after the last file                       *)
FinishFile(parsed) ==
    LET text == combinedText \o <<parsed.text, Separator>>
        images == allImages \o parsed.images IN
    /\ fileIdx' = fileIdx + 1
    /\ combinedText' = text
    /\ allImages' = images
    /\ parsedDocs' = Append(parsedDocs, parsed)
    /\ IF fileIdx + 1 = Len(files)
       THEN /\ normPc' = "returned"
            /\ normResult' = [text |-> text, images |-> images]
       ELSE /\ normPc' = "file"
            /\ UNCHANGED normResult

(* parsePdf: the document is open, the page loop starts *)
OpenPdf ==
    /\ normPc = "file"
    /\ IsPdf(CurrentFile)
    /\ \E numPages \in 1..MaxPages :
          pdf' = [numPages |-> numPages, i |-> 1, fullText |-> <<>>, images |-> <<>>]
    /\ normPc' = "pdf"
    /\ UNCHANGED <<files, fileIdx, combinedText, allImages, normResult,
                   parsedDocs, besideNorm>>

(* The embedded images of page i that have data *)
EmbeddedImages(embedded, i) ==
    SelectSeq([k \in 1..Len(embedded) |-> MkImage(embedded[k], "image/jpeg", i, "embedded")],
              LAMBDA img : img.data # EmptyPayload)

(* The scan fallback of page i *)
RenderedImages(render, i) ==
    IF render.kind = "data" /\ render.data # EmptyPayload
    THEN <<MkImage(render.data, "image/jpeg", i, "rendered")>>
    ELSE <<>>

(* One round of the page loop of parsePdf: text, embedded images, scan      *)
(* fallback; after the last page the de-duplication and the return          *)
PdfPage ==
    /\ normPc = "pdf"
    /\ \E pageText \in PageTexts, embedded \in EmbeddedLists, render \in RenderOutcomes :
          LET i == pdf.i
              withEmbedded == pdf.images \o EmbeddedImages(embedded, i)
              images == IF TrimmedLength(pageText) < ScanThreshold
                        THEN withEmbedded \o RenderedImages(render, i)
                        ELSE withEmbedded
              text == Append(pdf.fullText, pageText) IN
          IF i < pdf.numPages
          THEN /\ pdf' = [pdf EXCEPT !.i = i + 1, !.fullText = text,
                                     !.images = images]
               /\ UNCHANGED <<normPc, fileIdx, combinedText, allImages,
                              normResult, parsedDocs>>
          ELSE /\ pdf' = NoPdf
               /\ FinishFile([kind |-> "pdf", text |-> text,
                              images |-> UniqueImages(images), pushed |-> images])
    /\ UNCHANGED <<files, besideNorm>>

(* parseDocx: every img whose src is a data URI, none dropped *)
DocxImages(srcs) ==
    LET data == SelectSeq(srcs, LAMBDA src : src.scheme = "data") IN
    [k \in 1..Len(data) |->
        MkImage(data[k].data,
                IF data[k].mime # "" THEN data[k].mime ELSE "image/png",
                0, "docx")]

ParseDocxFile ==
    /\ normPc = "file"
    /\ ~IsPdf(CurrentFile) /\ IsDocx(CurrentFile)
    /\ \E srcs \in DocxSrcLists :
          FinishFile([kind |-> "docx", text |-> <<"innerText">>,
                      images |-> DocxImages(srcs), pushed |-> DocxImages(srcs)])
    /\ UNCHANGED <<files, pdf, besideNorm>>

ParseTextFile ==
    /\ normPc = "file"
    /\ ~IsPdf(CurrentFile) /\ ~IsDocx(CurrentFile)
    /\ FinishFile([kind |-> "text", text |-> <<"content">>,
                   images |-> <<>>, pushed |-> <<>>])
    /\ UNCHANGED <<files, pdf, besideNorm>>

(* A catch block that logs the error and goes on to the next file *)
FileFailsSkipsFile ==
    /\ normPc \in {"file", "pdf"}
    /\ fileIdx' = fileIdx + 1
    /\ pdf' = NoPdf
    /\ IF fileIdx + 1 = Len(files)
       THEN /\ normPc' = "returned"
            /\ normResult' = [text |-> combinedText, images |-> allImages]
       ELSE /\ normPc' = "file"
            /\ UNCHANGED normResult
    /\ UNCHANGED <<files, combinedText, allImages, parsedDocs, besideNorm>>

(* Reading or parsing the current file fails: the catch block of the loop *)
FileFails ==
    /\ normPc \in {"file", "pdf"}
    /\ normPc' = "rejected"
    /\ normResult' = ProcessError(CurrentFile)
    /\ pdf' = NoPdf
    /\ UNCHANGED <<files, fileIdx, combinedText, allImages, parsedDocs, besideNorm>>

NormNext == OpenPdf \/ PdfPage \/ ParseDocxFile \/ ParseTextFile \/ FileFails

SpecNormalize == NormInit /\ [][NormNext]_vars

----------------------------------------------------------------------------
(* App: handleGenerateClick, from the click on the button to the end of its *)
(* finally block, with generateAnswers run by the pool above                *)

MissingFilesMessage == <<"Please upload both notes and questions files.">>
(* `An error occurred: ${e.message}` *)
RunErrorMessage(e) == <<"An error occurred: ">> \o e.message

(* disabled={notesFiles.length === 0 || !questionsFile || isLoading} *)
ButtonDisabled == ~selected.notes \/ ~selected.questions \/ isLoading

(* A start that leaves the results of the run before on the page *)
ResultsAtStartKept(shown) == shown

(* setResults([]) *)
ResultsAtStart(shown) == <<>>

(* What the awaits of the handler reject with: parseNoteFiles with its own  *)
(* Error; extractTextFromFile with the event of the FileReader (which has   *)
(* no message) or with an Error of the PDF library; extractQuestionsFromFile *)
(* with its own Error                                                       *)
NotesErrors == {ProcessError(MkFile(1, ".pdf", "application/pdf"))}
ReaderErrorEvent == [name |-> "ProgressEvent", message |-> <<UNDEFINED>>,
                     cause |-> NoCause]
TextErrors == {ReaderErrorEvent, MkError("InvalidPDFException", <<"Invalid PDF structure.">>)}
QuestionsErrors ==
    {ExtractCatch(e) : e \in {ErrNoQuestions, ErrSyntax, RateLimitExceededError}}
ErrNoneExtracted ==
    MkError("Error", <<"Could not extract any questions from the question bank file. Please check its format and content.">>)

(* The lists extractQuestionsFromFile resolves with: it never resolves with *)
(* an empty one                                                             *)
AppQuestionLists == {qs \in QuestionLists : Len(qs) \in 1..MaxAppQuestions}

(* questions.findIndex(q => q.text === text) *)
FindIndex(qs, text) ==
    IF \E i \in 1..Len(qs) : qs[i].text = text
    THEN (CHOOSE i \in 1..Len(qs) :
             /\ qs[i].text = text
             /\ \A j \in 1..(i - 1) : qs[j].text # text) - 1
    ELSE -1

(* generatedResults.sort(...) by findIndex of the Result's question: the    *)
(* sort is stable, Results of one index keep their order                    *)
RECURSIVE SortFromIndex(_, _, _)
SortFromIndex(list, qs, k) ==
    IF k >= Len(qs) THEN <<>>
    ELSE LET HasIndex(r) == FindIndex(qs, r.question) = k IN
         SelectSeq(list, HasIndex) \o SortFromIndex(list, qs, k + 1)
SortToQuestionOrder(list, qs) == SortFromIndex(list, qs, -1)

AppInit ==
    /\ PipeIdle
    /\ wrapped = CallIdle
    /\ apiLog = <<>>
    /\ delayLog = <<>>
    /\ ParseIdle
    /\ NormIdle
    /\ ExtractIdle
    /\ selected \in [notes : BOOLEAN, questions : BOOLEAN]
    /\ appPc = "idle"
    /\ isLoading = FALSE
    /\ errorState = NoUiError
    /\ results = <<>>
    /\ runs = 0
    /\ errorLog = <<>>
    /\ failedAt = "none"

(* The button is clicked: the guard, and the handler up to its first await *)
Click ==
    /\ appPc = "idle"
    /\ ~ButtonDisabled
    /\ runs < MaxRuns
    /\ IF ~selected.notes \/ ~selected.questions
       THEN /\ errorState' = UiError(MissingFilesMessage)
            /\ errorLog' = Append(errorLog, MissingFilesMessage)
            /\ UNCHANGED <<appPc, isLoading, results, runs, failedAt>>
       ELSE /\ isLoading' = TRUE
            /\ errorState' = NoUiError
            /\ results' = ResultsAtStart(results)
            /\ appPc' = "notes"
            /\ runs' = runs + 1
            /\ errorLog' = <<>>
            /\ failedAt' = "none"
    /\ UNCHANGED <<selected, pipeVars, besideApp>>

(* An await of the try block rejects with e: the catch and finally blocks *)
RunFails(stage, e) ==
    /\ errorState' = UiError(RunErrorMessage(e))
    /\ errorLog' = Append(errorLog, RunErrorMessage(e))
    /\ isLoading' = FALSE
    /\ appPc' = "idle"
    /\ failedAt' = stage
    /\ UNCHANGED <<selected, results, runs>>

NotesParsed ==
    /\ appPc = "notes"
    /\ appPc' = "text"
    /\ notesData' = Notes
    /\ UNCHANGED <<questions, inputArray, phase, questionQueue, resultsMap,
                   completedCount,
                   pc, cur, call, local, inflight, output, progressLog, produced,
                   failStage, failCause, dequeueLog, stageLog, resultCount,
                   progressSnap>>
    /\ UNCHANGED <<selected, isLoading, errorState, results, runs, errorLog,
                   failedAt, besideApp>>

NotesRejected ==
    /\ appPc = "notes"
    /\ \E e \in NotesErrors : RunFails("notes", e)
    /\ UNCHANGED <<pipeVars, besideApp>>

TextExtracted ==
    /\ appPc = "text"
    /\ appPc' = "questions"
    /\ UNCHANGED <<selected, isLoading, errorState, results, runs, errorLog,
                   failedAt, pipeVars, besideApp>>

TextRejected ==
    /\ appPc = "text"
    /\ \E e \in TextErrors : RunFails("text", e)
    /\ UNCHANGED <<pipeVars, besideApp>>

(* extractQuestionsFromFile resolves: the length test, and generateAnswers  *)
(* is called and runs up to its await                                       *)
QuestionsExtracted ==
    /\ appPc = "questions"
    /\ \E qs \in AppQuestionLists :
          IF Len(qs) = 0
          THEN /\ RunFails("questions", ErrNoneExtracted)
               /\ UNCHANGED pipeVars
          ELSE /\ appPc' = "generate"
               /\ questions' = qs
               /\ output' = <<>>
               /\ progressLog' = <<>>
               /\ progressSnap' = <<>>
               /\ produced' = [i \in 1..Len(qs) |-> UndefinedResult]
               /\ failStage' = [i \in 1..Len(qs) |-> "none"]
               /\ failCause' = [i \in 1..Len(qs) |-> NoError]
               /\ resultCount' = [i \in 1..Len(qs) |-> 0]
               /\ BeginGenerate(Len(qs))
               /\ UNCHANGED <<notesData, selected, isLoading, errorState, results,
                              runs, errorLog, failedAt>>
    /\ UNCHANGED besideApp

(* A handler that reports the rejection of extractQuestionsFromFile and     *)
(* goes on to generateAnswers with the questions it has                     *)
QuestionsRejectedGoesOn ==
    /\ appPc = "questions"
    /\ \E e \in QuestionsErrors :
          /\ errorState' = UiError(RunErrorMessage(e))
          /\ errorLog' = Append(errorLog, RunErrorMessage(e))
    /\ failedAt' = "questions"
    /\ appPc' = "generate"
    /\ output' = <<>>
    /\ progressLog' = <<>>
    /\ progressSnap' = <<>>
    /\ produced' = [i \in 1..Len(questions) |-> UndefinedResult]
    /\ failStage' = [i \in 1..Len(questions) |-> "none"]
    /\ failCause' = [i \in 1..Len(questions) |-> NoError]
    /\ resultCount' = [i \in 1..Len(questions) |-> 0]
    /\ BeginGenerate(Len(questions))
    /\ UNCHANGED <<questions, notesData, selected, isLoading, results, runs,
                   besideApp>>

(* extractQuestionsFromFile rejects: the catch block, generateAnswers is    *)
(* not reached                                                              *)
QuestionsRejected ==
    /\ appPc = "questions"
    /\ \E e \in QuestionsErrors : RunFails("questions", e)
    /\ UNCHANGED <<pipeVars, besideApp>>

(* generateAnswers has settled: the sort and setResults, or the catch       *)
(* block; then the finally block                                            *)
Generated ==
    /\ appPc = "generate"
    /\ phase \in {"resolved", "rejected"}
    /\ IF phase = "resolved"
       THEN /\ results' = SortToQuestionOrder(output, questions)
            /\ isLoading' = FALSE
            /\ appPc' = "idle"
            /\ UNCHANGED <<selected, errorState, runs, errorLog, failedAt>>
       ELSE RunFails("generate", ErrTypeError)
    /\ UNCHANGED <<pipeVars, besideApp>>

AppNext ==
    \/ Click
    \/ NotesParsed
    \/ NotesRejected
    \/ TextExtracted
    \/ TextRejected
    \/ QuestionsExtracted
    \/ QuestionsRejected
    \/ \E w \in Workers : ProbeResolves(w)
    \/ \E w \in Workers : SynthResolves(w)
    \/ \E w \in Workers : ImageResolves(w)
    \/ \E w \in Workers : CallRejects(w)
    \/ \E w \in Workers : TimerFires(w)
    \/ Finish
    \/ Generated

SpecApp == AppInit /\ [][AppNext]_vars

----------------------------------------------------------------------------
(* Properties of generateAnswers (checked under Spec) *)

N == Len(questions)
Resolved == phase = "resolved"
IsFallback(result) ==
    /\ result # UndefinedResult
    /\ result.answer \in {<<<<GenericFallback>>>>, <<<<RateLimitFallback>>>>,
                          <<<<CriticalFallback>>>>}
    /\ result.imageUrl = NoImage
    /\ result.sources = <<>>
DistinctTexts ==
    \A i, j \in 1..N : questions[i].text = questions[j].text => i = j

(* C1: whatever the backend calls do, generateAnswers resolves with exactly *)
(* one defined Result for every input question, none dropped: as many       *)
(* entries as questions, the i-th one a Result of the i-th question's text. *)
C1_Totality ==
    Resolved
    => /\ Len(output) = N
       /\ \A i \in 1..N : /\ output[i] # UndefinedResult
                          /\ output[i].question = questions[i].text

C1_Witness ==
    /\ Resolved
    /\ N = 3
    /\ DistinctTexts
    /\ failStage[1] = "synth"
    /\ failStage[2] = "none"
    /\ failStage[3] = "probe"
    /\ \A i \in 1..N : output[i] # UndefinedResult

(* C2, as claimed: the Result at position i of the output is the Result     *)
(* produced by processing the i-th input question, whatever the order in    *)
(* which the workers completed.                                             *)
C2_OutputOrder ==
    Resolved => \A i \in 1..N : output[i] = produced[i]

(* C3, as claimed: when the synthesis stage of exactly one question fails   *)
(* and nothing else does, there are N Results, every other entry is the one *)
(* its question produces without failure, and the failing entry is a        *)
(* fallback: fallback answer, no image, no sources.                         *)
C3_Isolation ==
    Resolved
    => \A f \in 1..N :
         ( /\ failStage[f] = "synth"
           /\ \A i \in 1..N \ {f} : failStage[i] = "none" )
         => /\ Len(output) = N
            /\ \A i \in 1..N \ {f} : output[i] = produced[i] /\ ~IsFallback(output[i])
            /\ IsFallback(output[f])

(* C4: no error of a probe, synthesis or image-generation call leaves       *)
(* generateAnswers: no worker's promise rejects, and the promise returned   *)
(* by generateAnswers never rejects.                                        *)
C4_FailureContainment ==
    /\ phase # "rejected"
    /\ \A w \in Workers : pc[w] # "rejected"

C4_Witness ==
    /\ Resolved
    /\ N = 3
    /\ failStage[1] = "image"
    /\ failStage[2] = "probe"
    /\ failStage[3] = "synth"

(* C9: the progress callback is invoked once per completed question, the    *)
(* k-th invocation with (k, N): N invocations in a full run, completed      *)
(* running through 1..N without repeat or gap, total always N.              *)
C9_ProgressMonotonic ==
    /\ Len(progressLog) = completedCount
    /\ Len(progressLog) <= N
    /\ \A k \in 1..Len(progressLog) : progressLog[k] = <<k, N>>
    /\ Resolved => Len(progressLog) = N

C9_Witness ==
    /\ Resolved
    /\ progressLog = << <<1, 3>>, <<2, 3>>, <<3, 3>> >>
    /\ \E i \in 1..N : failStage[i] # "none"

(* C10: at every moment at most CONCURRENCY_LIMIT = 2 backend calls (probe, *)
(* synthesis and image generation together) are in flight.                  *)
C10_ConcurrencyBound ==
    Cardinality(inflight) <= CONCURRENCY_LIMIT

C10_Witness ==
    /\ Cardinality(inflight) = CONCURRENCY_LIMIT
    /\ \E f, g \in inflight : f.kind = "synth" /\ g.kind = "image"
    /\ questionQueue # <<>>

(* C11: generateAnswers resolves only once the queue is empty and every     *)
(* worker has left its loop: when it has resolved, every input question has *)
(* a stored Result and no backend call of the run (probe, synthesis, image  *)
(* generation) is in flight.                                                *)
C11_ResolvesAfterDrain ==
    Resolved
    => /\ questionQueue = <<>>
       /\ \A w \in Workers : pc[w] = "done"
       /\ inflight = {}
       /\ \A i \in 1..N : /\ produced[i] # UndefinedResult
                          /\ questions[i].text \in DOMAIN resultsMap

C11_Witness ==
    /\ Resolved
    /\ N = 3
    /\ inflight = {}
    /\ \E i \in 1..N : produced[i].imageUrl = DataUri("image/jpeg", "CCCC")
    /\ \E i \in 1..N : failStage[i] = "image"

(* C12: every entry of the sources of every Result the pipeline returns has *)
(* a non-empty uri (grounding chunks without a web uri are dropped), and    *)
(* the fallback Result of a failed question has no sources at all.          *)
C12_SourcesHaveUri ==
    /\ Resolved
       => \A i \in 1..N : \A k \in 1..Len(output[i].sources) :
             output[i].sources[k].uri # ""
    /\ \A i \in 1..N :
          /\ produced[i] # UndefinedResult
             => \A k \in 1..Len(produced[i].sources) : produced[i].sources[k].uri # ""
          /\ failStage[i] \in {"probe", "synth"} => produced[i].sources = <<>>

C12_Witness ==
    /\ Resolved
    /\ \E i \in 1..N :
          output[i].sources = << [uri |-> "https://a.example", title |-> "A"] >>
    /\ \E i \in 1..N : failStage[i] = "synth"

(* C13: when the image-generation call fails after the synthesis succeeded  *)
(* (retry-budget exhaustion included), the Result of the question keeps the *)
(* answer and the sources of the synthesis and has imageUrl null; it is not *)
(* the fallback Result.                                                     *)
C13_ImageFailureContained ==
    \A i \in 1..N :
        failStage[i] = "image"
        => /\ ~IsFallback(produced[i])
           /\ produced[i].question = questions[i].text
           /\ produced[i].marks = questions[i].marks
           /\ produced[i].imageUrl = NoImage
           /\ \E r \in SynthResponses :
                 /\ r.hasText
                 /\ StartsWith(parseAiResponse(r.text).imageDirective, GenPrefix)
                 /\ produced[i].answer = parseAiResponse(r.text).answer
                 /\ produced[i].sources = Sources(r)

C13_Witness ==
    \E i \in 1..N :
        /\ failStage[i] = "image"
        /\ failCause[i] = RateLimitExceededError
        /\ produced[i].answer = << <<"Answer with drawing">> >>
        /\ produced[i].sources # <<>>

MentionsRateLimit(error) ==
    \/ Includes(error.message, FragExhausted)
    \/ Includes(error.message, FragRateLimit)
FailedQuestion(i) == failStage[i] \in {"probe", "synth"}

(* C14, as claimed: the fallback answer of a failed question names the rate *)
(* limit exactly when the cause of the failure was the exhaustion of the    *)
(* retry budget of a backend call, and is the generic message for every     *)
(* other cause; either way imageUrl is null and sources is empty.           *)
C14_FallbackNamesExhaustion ==
    \A i \in 1..N :
        FailedQuestion(i)
        => /\ produced[i].imageUrl = NoImage
           /\ produced[i].sources = <<>>
           /\ produced[i].answer =
                 IF failCause[i] = RateLimitExceededError
                 THEN << <<RateLimitFallback>> >> ELSE << <<GenericFallback>> >>

(* C14, amended: the fallback answer names the rate limit exactly when the  *)
(* message of the caught error contains RESOURCE_EXHAUSTED or "rate limit": *)
(* that is every exhaustion of the retry budget, and also an error that was *)
(* not retried but whose message mentions RESOURCE_EXHAUSTED; it is the     *)
(* generic message otherwise; either way imageUrl is null and sources is    *)
(* empty.                                                                   *)
C14_FallbackNamesRateLimitText ==
    \A i \in 1..N :
        FailedQuestion(i)
        => /\ produced[i].imageUrl = NoImage
           /\ produced[i].sources = <<>>
           /\ failCause[i] = RateLimitExceededError
                 => produced[i].answer = << <<RateLimitFallback>> >>
           /\ produced[i].answer =
                 IF MentionsRateLimit(failCause[i])
                 THEN << <<RateLimitFallback>> >> ELSE << <<GenericFallback>> >>

C14_Witness ==
    \E i, j, k \in 1..N :
        /\ FailedQuestion(i) /\ failCause[i] = ErrQuotaText
        /\ produced[i].answer = << <<RateLimitFallback>> >>
        /\ FailedQuestion(j) /\ failCause[j] = RateLimitExceededError
        /\ produced[j].answer = << <<RateLimitFallback>> >>
        /\ FailedQuestion(k) /\ failCause[k] = ErrTypeError
        /\ produced[k].answer = << <<GenericFallback>> >>

StageNames(q) == [n \in 1..Len(stageLog[q]) |-> stageLog[q][n].stage]
StageOrder == <<"probe", "synth", "image">>
FlightsOf(q) == {f \in inflight : f.question = q}
Processed(q) == resultCount[q] > 0
TimesDequeued(q) == Cardinality({n \in 1..Len(dequeueLog) : dequeueLog[n] = q})

(* C24: within one question the stages are strictly sequential.  A stage is *)
(* entered only after the wrapped call of every earlier stage has returned, *)
(* the stages come in the order probe, synthesis, image, and a question has *)
(* at most one backend call in flight: the call of the stage it is in.      *)
C24_StagesSequential ==
    \A q \in 1..N :
        /\ Cardinality(FlightsOf(q)) <= 1
        /\ Len(stageLog[q]) <= Len(StageOrder)
        /\ StageNames(q) = SubSeq(StageOrder, 1, Len(stageLog[q]))
        /\ \A n \in 1..(Len(stageLog[q]) - 1) : stageLog[q][n].call = "returned"
        /\ \A f \in FlightsOf(q) :
              /\ stageLog[q] # <<>>
              /\ stageLog[q][Len(stageLog[q])] = StageEntry(f.kind, "pending")

C24_Witness ==
    \E f, g \in inflight :
        /\ f.question # g.question
        /\ f.kind = "image"
        /\ g.kind = "synth"
        /\ stageLog[f.question]
             = <<StageEntry("probe", "returned"), StageEntry("synth", "returned"),
                 StageEntry("image", "pending")>>

(* C25, as claimed: every question the pipeline has processed to a Result   *)
(* has passed through the three stages, relevance probe, answer synthesis   *)
(* and image resolution, in that order.                                     *)
C25_AllThreeStages ==
    \A q \in 1..N : Processed(q) => StageNames(q) = StageOrder

(* C25, amended: the stages of a question come in the order relevance       *)
(* probe, answer synthesis, image resolution, and none is entered without   *)
(* the one before it.  A question whose probe fails ends after the probe, a *)
(* question whose synthesis fails ends after the synthesis, both with a     *)
(* fallback Result; every other processed question has passed through all   *)
(* three stages.                                                            *)
C25_StagesInOrder ==
    \A q \in 1..N :
        /\ StageNames(q) = SubSeq(StageOrder, 1, Len(stageLog[q]))
        /\ Processed(q)
           => /\ failStage[q] = "probe" <=> StageNames(q) = <<"probe">>
              /\ failStage[q] = "synth" <=> StageNames(q) = <<"probe", "synth">>
              /\ failStage[q] \in {"none", "image"} <=> StageNames(q) = StageOrder
              /\ failStage[q] \in {"probe", "synth"} => IsFallback(produced[q])

C25_Witness ==
    /\ Resolved
    /\ N = 3
    /\ StageNames(1) = <<"probe">>
    /\ StageNames(2) = <<"probe", "synth">>
    /\ StageNames(3) = StageOrder
    /\ stageLog[3][3].call = "none"

(* C26: every input question is shifted off the queue once, by one worker,  *)
(* and processed once.  At any moment a question is in the queue, or held   *)
(* by exactly one worker, or has exactly one Result; when generateAnswers   *)
(* resolves every question has been dequeued once and has one Result.       *)
C26_ExactlyOnce ==
    /\ \A q \in 1..N :
          /\ TimesDequeued(q) <= 1
          /\ resultCount[q] <= 1
          /\ Cardinality({w \in Workers : cur[w] = q}) <= 1
          /\ phase = "running"
             => Cardinality({n \in 1..Len(questionQueue) : questionQueue[n] = q})
                + Cardinality({w \in Workers : cur[w] = q})
                + resultCount[q] = 1
    /\ Resolved
       => /\ questionQueue = <<>>
          /\ \A q \in 1..N : TimesDequeued(q) = 1 /\ resultCount[q] = 1

C26_Witness ==
    /\ phase = "running"
    /\ N = 3
    /\ cur[1] = 3
    /\ cur[2] = 2
    /\ resultCount = <<1, 0, 0>>

(* C27: dispatch is first in, first out.  The questions are shifted off the *)
(* queue in input order, so no question has entered its first stage before  *)
(* every question ahead of it in the input has been dequeued.               *)
C27_FifoDispatch ==
    /\ \A n \in 1..Len(dequeueLog) : dequeueLog[n] = n
    /\ phase = "running"
       => questionQueue = [n \in 1..(N - Len(dequeueLog)) |-> Len(dequeueLog) + n]
    /\ \A i, j \in 1..N :
          i < j /\ stageLog[j] # <<>> => TimesDequeued(i) = 1

C27_Witness ==
    /\ dequeueLog = <<1, 2, 3>>
    /\ cur[1] = 1
    /\ cur[2] = 3
    /\ resultCount = <<0, 1, 0>>

(* C28: onProgress is called for a question after the Result of that        *)
(* question has been stored and before the worker that held it takes        *)
(* another question, and at every call completed is the number of input     *)
(* questions that have a Result.                                            *)
C28_ProgressAfterStore ==
    /\ Len(progressSnap) = Len(progressLog)
    /\ \A k \in 1..Len(progressSnap) :
          /\ progressSnap[k].own
          /\ progressSnap[k].holds
          /\ progressLog[k][1] = progressSnap[k].completed

C28_Witness ==
    /\ Resolved
    /\ Len(progressSnap) = 3
    /\ failStage[2] = "probe"
    /\ progressSnap[3].completed = 3

(* C32: generateAnswers leaves its inputs as they are.  No step of a run    *)
(* changes the notes (text and images), the questions, or the caller's      *)
(* array of them: the array holds every question, in the input order, from  *)
(* the call to the resolution.  What the steps change is the queue (a copy  *)
(* of the array), the result map and the completion counter.                *)
C32_InputsUnchanged ==
    [][ /\ notesData' = notesData
        /\ questions' = questions
        /\ inputArray' = inputArray
        /\ inputArray = [i \in 1..N |-> i]
        /\ notesData = Notes ]_vars

C32_Witness ==
    /\ Resolved
    /\ N = 3
    /\ inputArray = <<1, 2, 3>>
    /\ notesData = Notes
    /\ questionQueue = <<>>
    /\ completedCount = 3
    /\ DOMAIN resultsMap = {"q1", "q2", "q3"}

SameText(i, j) == questions[i].text = questions[j].text
LastDuplicate(i) == CHOOSE j \in 1..N : SameText(i, j) /\ \A k \in 1..N : SameText(i, k) => k <= j

(* C33, as claimed: when input questions have the same text, every output   *)
(* position of that text holds the Result of the duplicate that comes last  *)
(* in the input, marks included.                                            *)
C33_LaterDuplicateWins ==
    Resolved => \A i \in 1..N : output[i] = produced[LastDuplicate(i)]

(* C33, amended: the lookup map has one entry for a text, and every store   *)
(* of a Result replaces the entry of its text, whatever was there, and      *)
(* leaves the other entries alone.  So when input questions have the same   *)
(* text, every output position of that text holds one and the same Result:  *)
(* the one stored last, which is the Result of the duplicate processed to   *)
(* its end last, marks included; it is the Result of one of the duplicates, *)
(* not always of the one that comes later in the input.                     *)
C33_LastStoredWins ==
    /\ [](Resolved
          => \A i \in 1..N :
                /\ \E j \in 1..N : SameText(i, j) /\ output[i] = produced[j]
                /\ \A k \in 1..N : SameText(i, k) => output[k] = output[i])
    /\ [][ IF resultCount' = resultCount
           THEN resultsMap' = resultsMap
           ELSE \A q \in 1..N :
                   resultCount'[q] # resultCount[q]
                   => /\ resultsMap'[questions[q].text] = produced'[q]
                      /\ produced'[q].marks = questions[q].marks
                      /\ \A t \in DOMAIN resultsMap \ {questions[q].text} :
                            resultsMap'[t] = resultsMap[t] ]_vars

C33_Witness ==
    /\ Resolved
    /\ N = 3
    /\ SameText(1, 3)
    /\ ~SameText(1, 2)
    /\ output[1] = produced[1]
    /\ output[3] = produced[1]
    /\ output[3].marks = questions[1].marks
    /\ output[3].marks # questions[3].marks
    /\ output[2] = produced[2]

InProcessing == {w \in Workers : cur[w] # 0}

(* C36: called with an empty question list, generateAnswers resolves with   *)
(* an empty list (once called, its Promise.all is settled at once), never   *)
(* calls onProgress, takes no question and issues no backend call.  With    *)
(* fewer questions than workers, at most N questions are in processing at   *)
(* any moment, and at most N backend calls are in flight.                   *)
C36_EmptyAndSmallLists ==
    /\ N = 0
       => /\ progressLog = <<>>
          /\ completedCount = 0
          /\ dequeueLog = <<>>
          /\ inflight = {}
          /\ InProcessing = {}
          /\ \A w \in Workers : call[w].attempts = 0 /\ pc[w] \in {"idle", "done"}
          /\ phase = "running" => PromiseAll(pc) = "resolved"
          /\ phase \in {"idle", "running", "resolved"}
          /\ Resolved => output = <<>>
    /\ N < CONCURRENCY_LIMIT
       => /\ Cardinality(InProcessing) <= N
          /\ Cardinality(inflight) <= N
          /\ Cardinality({cur[w] : w \in InProcessing}) = Cardinality(InProcessing)

C36_Witness ==
    /\ N = 0
    /\ Resolved
    /\ output = <<>>
    /\ progressLog = <<>>
    /\ \A w \in Workers : pc[w] = "done"

IsCritical(result) ==
    result # UndefinedResult /\ result.answer = <<<<CriticalFallback>>>>

(* C37: the fallback of the worker's own catch block is never used.  Every  *)
(* error of a stage is turned into a Result inside processSingleQuestion (a *)
(* failed probe or synthesis into the generic or the rate-limit fallback, a *)
(* failed image generation into the answer without an image), so no Result  *)
(* stored, and none returned by generateAnswers, has the answer "A critical *)
(* error occurred while processing this question.".                         *)
C37_WorkerFallbackUnreachable ==
    /\ \A t \in DOMAIN resultsMap : ~IsCritical(resultsMap[t])
    /\ \A i \in 1..N :
          /\ ~IsCritical(produced[i])
          /\ (Processed(i) /\ failStage[i] \in {"probe", "synth"})
             => produced[i].answer \in {<<<<GenericFallback>>>>,
                                        <<<<RateLimitFallback>>>>}
          /\ (Processed(i) /\ failStage[i] = "image")
             => produced[i].answer \notin {<<<<GenericFallback>>>>,
                                           <<<<RateLimitFallback>>>>}
    /\ \A i \in 1..Len(output) : ~IsCritical(output[i])

C37_Witness ==
    /\ Resolved
    /\ N = 3
    /\ failStage = <<"probe", "synth", "image">>
    /\ failCause[1] = ErrTypeError
    /\ failCause[2] = RateLimitExceededError
    /\ failCause[3] = ErrNetwork
    /\ \A i \in 1..N : ~IsCritical(output[i])

WrappedCalls(q) ==
    Cardinality({n \in 1..Len(stageLog[q]) : stageLog[q][n].call # "none"})

(* C34: termination.  When every attempt of every backend call settles,     *)
(* generateAnswers, once called, resolves, whatever the question list and   *)
(* whatever the outcomes of the attempts.  A callApiWithRetry never makes   *)
(* more than maxRetries + 1 attempts and never retries more than maxRetries *)
(* times, and a question never issues more than three wrapped calls.        *)
C34_Termination ==
    /\ (phase = "running") ~> Resolved
    /\ [](\A w \in Workers :
             /\ call[w].attempts <= call[w].maxRetries + 1
             /\ call[w].state \in {"inflight", "backoff"}
                => call[w].retries <= call[w].maxRetries)
    /\ [](\A q \in 1..N : WrappedCalls(q) <= 3)

C34_Witness ==
    /\ Resolved
    /\ N = 3
    /\ failCause[1] = RateLimitExceededError
    /\ failStage[1] = "synth"
    /\ WrappedCalls(2) = 3
    /\ WrappedCalls(3) = 1

----------------------------------------------------------------------------
(* Properties of parseAiResponse and of the image decision (checked under   *)
(* SpecParse)                                                               *)

Parsed == parseOut # NoParse
Returns == parsePc = "done"
NoImageNoCall == Returns /\ imageOut = NoImage /\ imageCalls = <<>>
ImageCount == Len(notesData.images)

(* C15, as claimed: whatever the text of the synthesis, a line carrying the *)
(* USE_IMAGE: or GENERATE_IMAGE_PROMPT: directive is recognised wherever it *)
(* stands among the lines (first, middle or last), and no line of the       *)
(* returned answer body is a directive line.                                *)
C15_DirectiveParsing ==
    Parsed
    => /\ \A i \in 1..Len(fullText) :
             IsDirectiveLine(fullText[i])
             => /\ parseOut.imageDirective # NoDirective
                /\ IsDirectiveLine(parseOut.imageDirective)
       /\ \A j \in 1..Len(parseOut.answer) : ~IsDirectiveLine(parseOut.answer[j])

(* C16: a USE_IMAGE directive with the 1-based number k of an image of the  *)
(* notes (1 <= k <= number of images) yields as imageUrl the data URI built *)
(* from the MIME type and the payload of that image (the k-th one, index    *)
(* k-1 counted from 0), and no image-generation call is issued.             *)
C16_UseImageResolves ==
    \A k \in 1..ImageCount :
        (Parsed /\ parseOut.imageDirective = UseLine(k))
        => /\ Returns
           /\ imageOut = DataUri(notesData.images[k].mimeType,
                                 notesData.images[k].data)
           /\ imageCalls = <<>>

C16_Witness ==
    /\ Returns
    /\ ImageCount = 2
    /\ fullText = <<UseLine(2), ProseLine, ProseLine>>
    /\ imageOut = DataUri("image/jpeg", "BBBB")

GenDirectives ==
    { [directive |-> <<GenPrefix, Space, "a cat">>, prompt |-> <<"a cat">>],
      [directive |-> GenLineDog, prompt |-> <<"a", Space, "dog">>] }

(* C17: a synthesis text whose directive is GENERATE_IMAGE_PROMPT: followed *)
(* by a prompt issues exactly one image-generation call, whose prompt is    *)
(* the text after the prefix, trimmed; when that call returns an image, the *)
(* imageUrl is the image/jpeg data URI of its bytes.                        *)
C17_GenerateImage ==
    \A g \in GenDirectives :
        (Parsed /\ parseOut.imageDirective = g.directive)
        => /\ imageCalls = <<g.prompt>>
           /\ parsePc \in {"image", "done"}
           /\ ( /\ Returns
                /\ imageReply \in ImageResponses
                /\ Len(imageReply.generatedImages) > 0 )
              => imageOut = DataUri("image/jpeg",
                                    imageReply.generatedImages[1].imageBytes)

C17_Witness ==
    /\ Returns
    /\ fullText = <<ProseLine, ProseLine, GenLineCat>>
    /\ imageCalls = << <<"a cat">> >>
    /\ imageOut = DataUri("image/jpeg", "CCCC")

(* C18: when the text of the synthesis has no directive line, or its        *)
(* directive is USE_IMAGE with a number out of range (0, or more than the   *)
(* number of images of the notes) or with no number to parse, imageUrl is   *)
(* null and no image-generation call is issued.                             *)
C18_NoImageWithoutValidDirective ==
    Parsed
    => /\ (\A i \in 1..Len(fullText) : ~IsDirectiveLine(fullText[i]))
          => NoImageNoCall
       /\ \A k \in 0..3 :
             (parseOut.imageDirective = UseLine(k) /\ (k = 0 \/ k > ImageCount))
             => NoImageNoCall
       /\ parseOut.imageDirective = UseLineNoNumber => NoImageNoCall

C18_Witness ==
    /\ Returns
    /\ ImageCount = 2
    /\ fullText = <<ProseLine, UseLine(3), ProseLine>>
    /\ parseOut.imageDirective = UseLine(3)
    /\ imageOut = NoImage
    /\ imageCalls = <<>>

DirectiveLines == {i \in 1..Len(fullText) : IsDirectiveLine(fullText[i])}
FirstDirective ==
    fullText[CHOOSE i \in DirectiveLines : \A k \in DirectiveLines : i <= k]
AsksForImage(line) == StartsWith(line, GenPrefix) /\ Len(Trim(Tail(line))) > 0

(* At most one image-generation call for the question *)
OneImageCall == Len(imageCalls) <= 1

(* Of several directive lines the first one in line order decides: it is    *)
(* the directive returned, a call is issued exactly when it asks for a new  *)
(* image, with its prompt, and an image of the notes is taken only when it  *)
(* is a USE_IMAGE line                                                      *)
FirstDirectiveActedOn ==
    (Parsed /\ DirectiveLines # {})
    => /\ parseOut.imageDirective = Trim(FirstDirective)
       /\ imageCalls = IF AsksForImage(FirstDirective)
                       THEN <<Trim(Tail(FirstDirective))>> ELSE <<>>
       /\ ~StartsWith(FirstDirective, UsePrefix) /\ imageReply = NoReply
          => imageOut = NoImage
       /\ \A k \in 1..ImageCount :
             (Returns /\ FirstDirective = UseLine(k))
             => imageOut = DataUri(notesData.images[k].mimeType,
                                   notesData.images[k].data)

(* No line of the answer body is a directive line *)
DirectivesRemoved ==
    Parsed => \A j \in 1..Len(parseOut.answer) : ~IsDirectiveLine(parseOut.answer[j])

(* C35, as claimed: at most one image-generation call is issued for a       *)
(* question; when the text of the synthesis holds several directive lines,  *)
(* only the first one in line order is acted on, and all of them are gone   *)
(* from the answer body.                                                    *)
C35_FirstDirectiveOnly ==
    /\ OneImageCall
    /\ FirstDirectiveActedOn
    /\ Cardinality(DirectiveLines) >= 2 => DirectivesRemoved


(* The text holds an N or n directly followed by an O or o *)
HasNoIndicator(text) ==
    \E l \in 1..Len(text) :
        \E i \in 1..(Len(text[l]) - 1) :
            text[l][i] \in {"N", "n"} /\ text[l][i + 1] \in {"O", "o"}

(* C30: the synthesis call of a question carries the web-search tool        *)
(* exactly when the text of the probe's response contains NO, in any case;  *)
(* for a response without it, such as YES, the call carries no tool.  No    *)
(* synthesis call is issued before the probe has returned, nor for a probe  *)
(* response that has no text.                                               *)
C30_WebSearchTool ==
    /\ synthConfig.issued <=> (probeReply # NoReply /\ probeReply.hasText)
    /\ synthConfig.issued
       => /\ synthConfig.tools \in {<<>>, <<GoogleSearch>>}
          /\ synthConfig.tools = <<GoogleSearch>> <=> HasNoIndicator(probeReply.text)
    /\ (probeReply # NoReply /\ ~probeReply.hasText) => parsePc = "failed"

C30_Witness ==
    /\ Returns
    /\ probeReply.text = << <<"N", "o", ".">> >>
    /\ synthConfig = SynthConfig(TRUE)

----------------------------------------------------------------------------
(* Properties of the normalizer (checked under SpecNormalize) *)

PdfDocs == {d \in 1..Len(parsedDocs) : parsedDocs[d].kind = "pdf"}
Keys(images) == {ImageKey(images[i]) : i \in 1..Len(images)}
NoSharedKey(images) ==
    \A i, j \in 1..Len(images) :
        ImageKey(images[i]) = ImageKey(images[j]) => i = j
BatchReturned == normPc = "returned"
RECURSIVE ImagesOf(_)
ImagesOf(docs) ==
    IF Len(docs) = 0 THEN <<>> ELSE docs[1].images \o ImagesOf(Tail(docs))

(* C19, as claimed: in the document the normalizer produces (parsePdf for   *)
(* one PDF, parseNoteFiles for a batch) no two entries of images have the   *)
(* same leading 100 characters of payload; two such images are one entry.   *)
C19_NoSharedPrefix ==
    /\ \A d \in PdfDocs : NoSharedKey(parsedDocs[d].images)
    /\ BatchReturned => NoSharedKey(normResult.images)

(* C19, amended: in the document parsePdf returns for one PDF no two        *)
(* entries of images have the same leading 100 characters of payload: of    *)
(* the images collected with one such prefix only the last one is kept, and *)
(* every prefix collected is kept once.  parseDocx drops no image, and      *)
(* parseNoteFiles concatenates the image lists of the files in file order   *)
(* without de-duplicating them.                                             *)
C19_PdfDedupOnly ==
    /\ \A d \in PdfDocs :
          LET doc == parsedDocs[d] IN
          /\ NoSharedKey(doc.images)
          /\ Keys(doc.images) = Keys(doc.pushed)
          /\ \A k \in 1..Len(doc.images) :
                \E i \in 1..Len(doc.pushed) :
                    /\ doc.images[k] = doc.pushed[i]
                    /\ \A j \in (i + 1)..Len(doc.pushed) :
                          ImageKey(doc.pushed[j]) # ImageKey(doc.pushed[i])
    /\ \A d \in (1..Len(parsedDocs)) \ PdfDocs :
          parsedDocs[d].images = parsedDocs[d].pushed
    /\ BatchReturned => normResult.images = ImagesOf(parsedDocs)

C19_Witness ==
    /\ BatchReturned
    /\ \E d \in PdfDocs :
          /\ Len(parsedDocs[d].pushed) = 4
          /\ Len(parsedDocs[d].images) = 2
    /\ ~NoSharedKey(normResult.images)

(* C20, as claimed: every page of a PDF whose extracted text is shorter     *)
(* than 100 characters contributes at least one rendered image of its own   *)
(* to the image list of the document parsePdf returns.                      *)
C20_ScanFallback ==
    \A d \in PdfDocs :
        \A p \in 1..Len(parsedDocs[d].text) :
            parsedDocs[d].text[p].length < ScanThreshold
            => \E k \in 1..Len(parsedDocs[d].images) :
                  parsedDocs[d].images[k].origin = [page |-> p, how |-> "rendered"]

(* C21: batch parsing is all-or-nothing.  When a file of the batch cannot   *)
(* be parsed, parseNoteFiles rejects with an error whose message holds the  *)
(* name of that file, it returns no document made of the files parsed       *)
(* before it, and no file after it is parsed (nothing more happens).  A     *)
(* document is returned only when every file of the batch has been parsed.  *)
C21_AllOrNothing ==
    /\ Len(parsedDocs) = fileIdx
    /\ normPc = "rejected"
       => /\ fileIdx < Len(files)
          /\ normResult = ProcessError(files[fileIdx + 1])
          /\ normResult.message[2] = files[fileIdx + 1].name
          /\ "text" \notin DOMAIN normResult
          /\ "images" \notin DOMAIN normResult
          /\ ~ENABLED NormNext
    /\ BatchReturned
       => /\ Len(parsedDocs) = Len(files)
          /\ Len(normResult.text) = 2 * Len(files)
    /\ normPc \notin {"rejected", "returned"} => normResult = NoDocument

C21_Witness ==
    /\ normPc = "rejected"
    /\ Len(files) = 2
    /\ fileIdx = 1
    /\ Len(parsedDocs[1].images) > 0
    /\ normResult = ProcessError(files[2])

----------------------------------------------------------------------------
(* Properties of extractQuestionsFromFile (checked under SpecExtract) *)

(* The responseSchema of the call: an object whose questions is an array of *)
(* objects that each have a questionText and a marks                        *)
ConformsToSchema(value) ==
    /\ value.type = "object"
    /\ value.questionsKind = "array"
    /\ \A i \in 1..Len(value.items) :
          /\ ~value.items[i].isNull
          /\ value.items[i].questionText # UNDEFINED
          /\ value.items[i].marks # UNDEFINED
Malformed(response) ==
    \/ ~response.hasText
    \/ response.text.syntax # "json"
    \/ ~ConformsToSchema(response.text.value)
    \/ Len(response.text.value.items) = 0
ExtractionFailed ==
    /\ extractPc = "thrown"
    /\ extractOut.name = "Error"
    /\ extractOut.message[1] = ExtractionPrefix

(* C22, as claimed: extractQuestionsFromFile never returns an empty list.   *)
(* For a response that is empty, not JSON, against the schema or holds zero *)
(* questions it fails with an extraction error; otherwise it returns the    *)
(* questions of the response in their order.                                *)
C22_ExtractionTotal ==
    /\ extractPc = "thrown" => ExtractionFailed
    /\ extractPc = "returned"
       => LET items == extractReply.text.value.items IN
          /\ Len(extractOut) > 0
          /\ Len(extractOut) = Len(items)
          /\ \A i \in 1..Len(items) :
                extractOut[i] = [text |-> items[i].questionText,
                                 marks |-> items[i].marks]
    /\ extractReply # NoReply
       => IF Malformed(extractReply) THEN ExtractionFailed
          ELSE extractPc = "returned"

----------------------------------------------------------------------------
(* Properties of handleGenerateClick (checked under SpecApp) *)

RunFailed == appPc = "idle" /\ failedAt \in {"notes", "text", "questions"}

(* C23: a run in which the parsing of the notes, the reading of the         *)
(* question file or the extraction of the questions fails ends with exactly *)
(* one error message set, which is the one shown, and with an empty results *)
(* list; no Result is on the page while the run is going on either.         *)
C23_RunFailure ==
    /\ RunFailed
       => /\ Len(errorLog) = 1
          /\ errorState = UiError(errorLog[1])
          /\ errorState.message[1] = "An error occurred: "
          /\ results = <<>>
          /\ ~isLoading
    /\ isLoading => results = <<>> /\ errorState = NoUiError

C23_Witness ==
    /\ RunFailed
    /\ runs = 2
    /\ failedAt = "questions"
    /\ Len(output) = 2
    /\ results = <<>>
    /\ errorState = UiError(RunErrorMessage(ExtractCatch(ErrNoQuestions)))

PoolActive ==
    \/ phase = "running"
    \/ inflight # {}
    \/ \E w \in DOMAIN pc : pc[w] \in Stages
RunCompleted == appPc = "idle" /\ runs > 0 /\ failedAt = "none"

(* C31: no worker is at work and no probe, synthesis or image-generation    *)
(* call is in flight unless the parsing of the notes and the extraction of  *)
(* the questions of the current run have both succeeded, with at least one  *)
(* question.  A run ends in one of two ways: it fails at the notes, at the  *)
(* question file or at the extraction, before any worker has started (in a  *)
(* first run nothing has been dequeued and nothing reported), or it reaches *)
(* generateAnswers and completes with one Result per question.              *)
C31_NoWorkerBeforeExtraction ==
    /\ PoolActive
       => /\ appPc = "generate"
          /\ failedAt = "none"
          /\ N >= 1
          /\ notesData = Notes
    /\ failedAt \in {"none", "notes", "text", "questions"}
    /\ (runs = 1 /\ (RunFailed \/ appPc \in {"notes", "text", "questions"}))
       => /\ phase = "idle"
          /\ dequeueLog = <<>>
          /\ progressLog = <<>>
    /\ RunCompleted
       => /\ phase = "resolved"
          /\ N >= 1
          /\ Len(output) = N
          /\ Len(results) = N
          /\ \A i \in 1..N : resultCount[i] >= 1

C31_Witness ==
    /\ RunFailed
    /\ runs = 2
    /\ failedAt = "text"
    /\ phase = "resolved"
    /\ Len(output) = 2
    /\ dequeueLog = <<1, 2>>
    /\ ~PoolActive

----------------------------------------------------------------------------
(* Properties of callApiWithRetry (checked under SpecRetry) *)

IsRateLimited(entry) == entry.kind = "err" /\ entry.error \in RateLimitErrors
AllRateLimited(log) == \A i \in 1..Len(log) : IsRateLimited(log[i])
Exhausted == wrapped.state = "thrown" /\ AllRateLimited(apiLog)

(* C5: when the underlying call fails with a rate-limit signal exactly K    *)
(* times, K <= maxRetries, and then succeeds, the wrapper returns that      *)
(* success value and the call has been attempted exactly K+1 times; up to   *)
(* maxRetries rate-limit failures never end the wrapper.                    *)
C5_RetrySuccess ==
    /\ \A k \in 0..wrapped.maxRetries :
          ( /\ Len(apiLog) = k + 1
            /\ AllRateLimited(SubSeq(apiLog, 1, k))
            /\ apiLog[k + 1].kind = "ok" )
          => /\ wrapped.state = "returned"
             /\ wrapped.value = apiLog[k + 1].value
             /\ wrapped.attempts = k + 1
    /\ (AllRateLimited(apiLog) /\ Len(apiLog) <= wrapped.maxRetries)
          => wrapped.state \in {"inflight", "backoff"}

C5_Witness ==
    /\ wrapped.state = "returned"
    /\ wrapped.maxRetries >= 2
    /\ Len(apiLog) = wrapped.maxRetries + 1
    /\ wrapped.attempts = wrapped.maxRetries + 1

(* C6: when the underlying call fails with a rate-limit signal more than    *)
(* maxRetries times, the wrapper fails with the rate-limit-exceeded error   *)
(* after exactly maxRetries+1 attempts (maxRetries = 0 included).           *)
C6_RetryExhaustion ==
    (AllRateLimited(apiLog) /\ Len(apiLog) > wrapped.maxRetries)
    => /\ wrapped.state = "thrown"
       /\ wrapped.error.message = RateLimitExceededError.message
       /\ wrapped.attempts = wrapped.maxRetries + 1
       /\ Len(apiLog) = wrapped.maxRetries + 1

C6_Witness ==
    /\ Exhausted
    /\ wrapped.maxRetries = MaxRetriesBound
    /\ wrapped.attempts = MaxRetriesBound + 1

(* C7: an attempt that fails with an error carrying no rate-limit signal is *)
(* the last attempt, and that very error is what the wrapper throws; as the *)
(* first attempt it leaves the call attempted exactly once.                 *)
C7_NonRateLimitShortCircuit ==
    \A i \in 1..Len(apiLog) :
        (apiLog[i].kind = "err" /\ apiLog[i].error \notin RateLimitErrors)
        => /\ i = Len(apiLog)
           /\ wrapped.state = "thrown"
           /\ wrapped.error = apiLog[i].error
           /\ wrapped.attempts = i

C7_Witness ==
    /\ Len(apiLog) = 3
    /\ apiLog[3].kind = "err"
    /\ apiLog[3].error = ErrQuotaText
    /\ wrapped.state = "thrown"

(* C8, as claimed: the error thrown on exhaustion carries the last          *)
(* rate-limit error of the underlying call as its cause.                    *)
C8_ThrownWrapsCause ==
    Exhausted => wrapped.error.cause = apiLog[Len(apiLog)].error

(* C8, amended: the error thrown on exhaustion is a fresh Error with the    *)
(* fixed rate-limit message and no cause; the last rate-limit error is only *)
(* logged.                                                                  *)
C8_ThrownIsFreshError ==
    Exhausted
    => /\ wrapped.error = RateLimitExceededError
       /\ wrapped.error.cause = NoCause
       /\ wrapped.logged = apiLog[Len(apiLog)].error

C8_Witness ==
    /\ Exhausted
    /\ wrapped.maxRetries >= 1
    /\ apiLog[Len(apiLog)].error = ErrExhausted

RateLimitedAttempts == Cardinality({i \in 1..Len(apiLog) : IsRateLimited(apiLog[i])})

(* C29: before its k-th retry callApiWithRetry waits for a delay d with     *)
(* initialDelay * 2^(k-1) <= d < initialDelay * 2^(k-1) + 1000 ms; with the *)
(* defaults the waits lie in [1000, 2000), [2000, 3000) and [4000, 5000).   *)
(* There are at most maxRetries waits, one after every rate-limit error but *)
(* the one that exhausts the budget: no wait precedes the final failure.    *)
C29_BackoffDelay ==
    /\ Len(delayLog) <= wrapped.maxRetries
    /\ \A k \in 1..Len(delayLog) :
          /\ wrapped.initialDelay * 2 ^ (k - 1) <= delayLog[k]
          /\ delayLog[k] < wrapped.initialDelay * 2 ^ (k - 1) + 1000
    /\ (wrapped.initialDelay = 1000 /\ wrapped.maxRetries = 3)
       => /\ Len(delayLog) >= 1 => 1000 <= delayLog[1] /\ delayLog[1] < 2000
          /\ Len(delayLog) >= 2 => 2000 <= delayLog[2] /\ delayLog[2] < 3000
          /\ Len(delayLog) >= 3 => 4000 <= delayLog[3] /\ delayLog[3] < 5000
    /\ Len(delayLog) = IF Exhausted THEN RateLimitedAttempts - 1
                       ELSE RateLimitedAttempts
    /\ Len(delayLog) = IF wrapped.state \in {"returned", "thrown"}
                       THEN Len(apiLog) - 1 ELSE Len(apiLog)
    /\ Exhausted => Len(delayLog) = wrapped.maxRetries

C29_Witness ==
    /\ Exhausted
    /\ wrapped.maxRetries = DefaultMaxRetries
    /\ wrapped.initialDelay = DefaultInitialDelay
    /\ delayLog = <<1999, 2000, 4999>>

====
